---- MODULE Spec2Model ----
(***************************************************************************)
(* Session-security engine of the backend: JWTService of                   *)
(* src/core/utils/jwt.ts (refresh-token issue, rotation with reuse and     *)
(* device-mismatch detection, revocation, global token version).           *)
(*                                                                         *)
(* The refresh_tokens table is the sequence `tokens`; a record's position  *)
(* is its id and also stands for its opaque token string (the JWT carries  *)
(* a random jti, the column is UNIQUE).  Every request is served by a      *)
(* process of Procs; one action is one storage call (a prisma await)       *)
(* together with the synchronous code that follows it up to the next       *)
(* storage call, so that calls of different requests interleave exactly    *)
(* at the awaits.                                                          *)
(***************************************************************************)
EXTENDS Integers, Sequences, FiniteSets, Bags, TLC

\* ---------------------------------------------------------------- bounds
MaxCalls == 3           \* requests served
MaxEvents == 2          \* security events and trust changes followed

Users == {"u1", "u2"}
Fingerprints == {"f1", "f2"}
Procs == {"p1", "p2"}
\* clock readings, in seconds: the grace window's end and a refresh token's
\* last five seconds
Times == {0, 10, 15 * 24 * 60 * 60 - 5, 15 * 24 * 60 * 60}
\* x-forwarded-for / remoteAddress as received, and the two kinds of event
RawIps == {"10.0.0.1", "::ffff:10.0.0.1", "10.0.0.2"}
EventKinds == {"login", "token_refresh"}
\* the instants at which the security events are followed
EventTimes == {0, 10}

\* ------------------------------------------------------------- constants
NULL == -1              \* null of a numeric column or local
NONE == "none"          \* null of a text column or local
BogusToken == 0         \* a string that is not a JWT signed with the refresh secret
ROTATION_GRACE_MS == 10000
RefreshExpiryDays == 15
RefreshExpirySec == RefreshExpiryDays * 24 * 60 * 60
AccessExpirySec == 5 * 60   \* JWT_ACCESS_EXPIRY '5m'
DenyListTtlSec == 5 * 60    \* setTimeout(..., 5 * 60 * 1000) of blacklistAccessToken

VARIABLES
    tokens,             \* table refresh_tokens
    userVersion,        \* users.token_version
    alerts,             \* table security_alerts (owner, type, family), a bag of rows
    now,                \* wall clock, in seconds
    calls,              \* requests served so far
    proc,               \* per request: position and locals of the running call
    trusted,            \* table trusted_devices
    history,            \* table login_history, a bag of rows
    obs,                \* per request: the processAuthEvent call it fired
    blacklist,          \* JWTService.blacklistedTokens
    signed,             \* access tokens handed out so far
    req,                \* per request: what the middleware did with it
    otps,               \* table otp_codes
    vcall,              \* per request: the createAndSendOtp or verifyOtp call it runs
    accepted,           \* the codes verifyOtp has answered valid for, one per answer
    entries,            \* table clock_entries, committed rows
    ccall               \* per request: the clockIn or clockOut transaction it runs

\* what the session engine neither reads nor writes: one-time codes and the
\* time clock
appVars == <<otps, vcall, accepted, entries, ccall>>

\* what JWTService's refresh-token methods neither read nor write
secVars == <<trusted, history, obs, blacklist, signed, appVars>>

vars == <<tokens, userVersion, alerts, now, calls, proc, trusted, history, obs,
          blacklist, signed, req, otps, vcall, accepted, entries, ccall>>

TokenIds == 1..Len(tokens)

\* Locals of a call.  Of the row read by the lookup (storedToken) the call
\* keeps what it still uses after its checks: owner, family, fingerprint and
\* the replacement reference.
Idle == [pc |-> "idle", op |-> "none", token |-> NULL, reqFp |-> NONE,
         userId |-> NONE, familyId |-> NULL, fingerprint |-> NONE,
         replacedByToken |-> NULL, reason |-> "none",
         tokenVersion |-> NULL, expiresAt |-> NULL, newToken |-> NULL,
         result |-> "none", refreshToken |-> NULL, path |-> "none",
         alert |-> "none"]

\* Locals of a processAuthEvent call; raised and logged list what the call
\* itself has written so far (the rows its awaited creates returned).
NoObserve == [pc |-> "idle", userId |-> NONE, fingerprint |-> NONE, ip |-> NONE,
              eventType |-> "none", trustedId |-> NULL,
              isNewDevice |-> FALSE, isNewIp |-> FALSE,
              actualEventType |-> "none", isTrustedDevice |-> FALSE,
              raised |-> <<>>, logged |-> <<>>, result |-> "none"]

\* An access token is the signature of its payload: the user, the second it
\* was signed in (iat) and the second it expires in (exp, iat plus the
\* configured expiresIn); BogusAccess is a string that no key has signed.
SignAccess(u, t, life) == [userId |-> u, iat |-> t, exp |-> t + life]
AccessToken(u, t) == SignAccess(u, t, AccessExpirySec)
BogusAccess == AccessToken(NONE, NULL)

\* the authorization header: absent, of another scheme, or a bearer token
NoHeader == [scheme |-> "none", token |-> BogusAccess]
Bearer(a) == [scheme |-> "Bearer", token |-> a]

\* What a request handler holds (req, res): its position, what the request
\* brought (the state of its access credential, whether it has a refresh
\* header) and, after the response, req.user (identity), the error handed to
\* next(), whether the new tokens were put on the response, and how the
\* rotation ended.
NoRequest == [pc |-> "idle", kind |-> "none", fingerprint |-> NONE, ip |-> NONE,
              access |-> "none", refreshGiven |-> FALSE,
              identity |-> NONE, error |-> "none", newTokens |-> FALSE,
              rotation |-> "none"]

\* Locals of a createAndSendOtp or verifyOtp call: the code it generated or
\* was given, and of the row its findFirst returned the id, the code and the
\* attempts counter as read.
NoOtpCall == [pc |-> "idle", op |-> "none", code |-> NONE, id |-> NULL,
              storedCode |-> NONE, attempts |-> NULL, result |-> "none"]

\* Locals of a clockIn or clockOut transaction.
NoClockCall == [pc |-> "idle", op |-> "none", userId |-> NONE, assigned |-> FALSE,
                id |-> NULL, clockInTime |-> NULL, result |-> "none"]

\* no code was asked for, nobody has clocked in
InitApp ==
    /\ otps = <<>>
    /\ vcall = [p \in Procs |-> NoOtpCall]
    /\ accepted = <<>>
    /\ entries = <<>>
    /\ ccall = [p \in Procs |-> NoClockCall]

\* ------------------------------------------------------- pure operators

\* jwt.verify: signature and exp claim (iat + expiresIn); the token is signed
\* in the same synchronous stretch that computes expiresAt
JwtIssuedAt(toks, tok) == toks[tok].expiresAt - RefreshExpirySec
JwtSigned(toks, tok) == tok \in 1..Len(toks)
JwtExpired(toks, tok, t) == t >= JwtIssuedAt(toks, tok) + RefreshExpirySec

\* new Date() > storedToken.expiresAt
RecordExpired(rec, t) == t > rec.expiresAt

\* storedToken.tokenVersion < storedToken.user.tokenVersion
\* (first a variant that lets a token one version behind pass, then the code's)
VersionOutdatedByTwo(rec, uv) == rec.tokenVersion + 1 < uv
VersionOutdated(rec, uv) == rec.tokenVersion < uv

\* storedToken.isRevoked || storedToken.replacedByToken
\* (first a variant that looks at the replacement only, then the code's)
ReuseSuspectedRotatedOnly(rec) == rec.replacedByToken # NULL
ReuseSuspected(rec) == rec.isRevoked \/ rec.replacedByToken # NULL

\* rotatedAt && elapsed < ROTATION_GRACE_MS && replacedByToken
\* (first a variant whose window includes its end, then the code's)
InGraceInclusive(rec, t) ==
    /\ rec.rotatedAt # NULL
    /\ (t - rec.rotatedAt) * 1000 <= ROTATION_GRACE_MS
    /\ rec.replacedByToken # NULL
InGrace(rec, t) ==
    /\ rec.rotatedAt # NULL
    /\ (t - rec.rotatedAt) * 1000 < ROTATION_GRACE_MS
    /\ rec.replacedByToken # NULL

\* findFirst({ token: replacedByToken, isRevoked: false }) and its expiry test
\* (first a variant that finds revoked rows as well, then the code's)
ReplacementUsableRevoked(toks, tok, t) ==
    /\ tok \in 1..Len(toks)
    /\ t < toks[tok].expiresAt
ReplacementUsable(toks, tok, t) ==
    /\ tok \in 1..Len(toks)
    /\ ~toks[tok].isRevoked
    /\ t < toks[tok].expiresAt

\* deviceFingerprint && requestFingerprint && deviceFingerprint !== requestFingerprint
\* (first a variant that objects to the matching fingerprint, then the code's)
FingerprintMismatchInverted(rec, fp) ==
    /\ rec.deviceFingerprint # NONE
    /\ fp # NONE
    /\ rec.deviceFingerprint = fp
FingerprintMismatch(rec, fp) ==
    /\ rec.deviceFingerprint # NONE
    /\ fp # NONE
    /\ rec.deviceFingerprint # fp

\* updateMany({ where: { familyId, isRevoked: false }, data: { isRevoked: true } })
\* (first a variant that flags every row of the family's owner, then the code's)
RevokeFamilyInOwner(toks, fam) ==
    [i \in 1..Len(toks) |->
        IF \E j \in 1..Len(toks) : toks[j].familyId = fam /\ toks[j].userId = toks[i].userId
        THEN [toks[i] EXCEPT !.isRevoked = TRUE] ELSE toks[i]]
RevokeFamilyIn(toks, fam) ==
    [i \in 1..Len(toks) |->
        IF toks[i].familyId = fam THEN [toks[i] EXCEPT !.isRevoked = TRUE] ELSE toks[i]]

\* updateMany({ where: { userId, isRevoked: false }, data: { isRevoked: true } })
RevokeUserIn(toks, u) ==
    [i \in 1..Len(toks) |->
        IF toks[i].userId = u THEN [toks[i] EXCEPT !.isRevoked = TRUE] ELSE toks[i]]

\* updateMany({ where: { token }, data: { isRevoked: true } })
\* (first a variant that also ends the row's life, then the code's)
RevokeTokenInExpiring(toks, tok) ==
    [i \in 1..Len(toks) |->
        IF i = tok THEN [toks[i] EXCEPT !.isRevoked = TRUE, !.expiresAt = 0] ELSE toks[i]]
RevokeTokenIn(toks, tok) ==
    [i \in 1..Len(toks) |->
        IF i = tok THEN [toks[i] EXCEPT !.isRevoked = TRUE] ELSE toks[i]]

\* familyId || crypto.randomBytes(16): a login starts a family of its own
\* (first a variant that always starts a new family, then the code's)
FamilyFresh(familyId, fresh) == fresh
FamilyOf(familyId, fresh) == IF familyId = NULL THEN fresh ELSE familyId

\* the row prisma.securityAlert.create writes: is_read and is_dismissed take
\* their defaults; familyId stands for the metadata of the rotation alerts
NewAlert(u, type, fam) ==
    [userId |-> u, alertType |-> type, familyId |-> fam,
     isRead |-> FALSE, isDismissed |-> FALSE]

\* the row prisma.refreshToken.create writes
NewRecord(u, ver, fam, fp, exp) ==
    [userId |-> u, tokenVersion |-> ver, familyId |-> fam, deviceFingerprint |-> fp,
     expiresAt |-> exp, isRevoked |-> FALSE, replacedByToken |-> NULL,
     rotatedAt |-> NULL, lastUsedAt |-> NULL]

\* update of the old row at the end of a rotation
\* (first a variant that also sets the revoked flag and one that clears it,
\* then the code's)
MarkRotatedRevoking(rec, newTok, t) ==
    [rec EXCEPT !.replacedByToken = newTok, !.rotatedAt = t, !.lastUsedAt = t,
                !.isRevoked = TRUE]
MarkRotatedUnrevoking(rec, newTok, t) ==
    [rec EXCEPT !.replacedByToken = newTok, !.rotatedAt = t, !.lastUsedAt = t,
                !.isRevoked = FALSE]
MarkRotated(rec, newTok, t) ==
    [rec EXCEPT !.replacedByToken = newTok, !.rotatedAt = t, !.lastUsedAt = t]

\* storedToken.deviceFingerprint || requestFingerprint
\* (first a variant without the request's fingerprint, then the code's)
StoredFingerprintOnly(rec, fp) == rec.deviceFingerprint
StoredFingerprint(rec, fp) ==
    IF rec.deviceFingerprint # NONE THEN rec.deviceFingerprint ELSE fp

\* the version generateRefreshToken stamps on the row it creates
IssueVersion(uv) == IF uv = 0 THEN 1 ELSE uv

Finish(p, res, tok, path) ==
    [proc[p] EXCEPT !.pc = "done", !.result = res, !.refreshToken = tok, !.path = path]

\* A finished call holds its outcome until the response is sent; sending
\* touches no storage, so it is taken to happen before the next storage call.
Delivered == \A p \in Procs : proc[p].pc # "done"

At(p, label) == Delivered /\ proc[p].pc = label

\* A request is picked up by a free process.  Requests are interchangeable,
\* so a free p2 waits while p1 is free as well.
CanStart(p) ==
    /\ calls < MaxCalls
    /\ At(p, "idle")
    /\ p = "p2" => proc["p1"].pc # "idle"

\* Users and fingerprints that nothing refers to yet are interchangeable
\* too: the second of each is drawn only once the first is in use.
UserInUse(u) ==
    \/ userVersion[u] # 1
    \/ \E i \in TokenIds : tokens[i].userId = u
    \/ \E p \in Procs : proc[p].userId = u
UserOrder(u) == u = "u2" => UserInUse("u1")

FingerprintInUse(f) ==
    \/ \E i \in TokenIds : tokens[i].deviceFingerprint = f
    \/ \E p \in Procs : proc[p].fingerprint = f
FingerprintOrder(f) == f = "f2" => FingerprintInUse("f1")

\* ---------------------------------------------------------------- Init
Init ==
    /\ tokens = <<>>
    /\ userVersion = [u \in Users |-> 1]
    /\ alerts = EmptyBag
    /\ now = 0
    /\ calls = 0
    /\ proc = [p \in Procs |-> Idle]
    /\ trusted = <<>>
    /\ history = EmptyBag
    /\ obs = [p \in Procs |-> NoObserve]
    /\ blacklist = {}
    /\ signed = {}
    /\ req = [p \in Procs |-> NoRequest]
    /\ InitApp

\* ------------------------------------------------------------- actions

\* generateTokenPair -> generateRefreshToken: user.findUnique, then the
\* token is signed and expiresAt computed
IssueFindUser(p, u, fp) ==
    /\ CanStart(p)
    /\ UserOrder(u)
    /\ FingerprintOrder(fp)
    /\ proc' = [proc EXCEPT ![p] = [Idle EXCEPT
                    !.pc = "genCreate", !.op = "issue", !.userId = u,
                    !.familyId = NULL, !.fingerprint = fp,
                    !.tokenVersion = IssueVersion(userVersion[u]),
                    !.expiresAt = now + RefreshExpirySec]]
    /\ UNCHANGED <<tokens, userVersion, alerts, now>>
    /\ calls' = calls + 1
    /\ UNCHANGED secVars

\* generateRefreshToken: refreshToken.create; a login returns the pair, a
\* rotation goes on to mark the old row
GenCreate(p) ==
    /\ At(p, "genCreate")
    /\ LET id == Len(tokens) + 1
           fam == FamilyOf(proc[p].familyId, id)
       IN /\ tokens' = Append(tokens, NewRecord(proc[p].userId, proc[p].tokenVersion,
                                   fam, proc[p].fingerprint, proc[p].expiresAt))
          /\ proc' = [proc EXCEPT ![p] =
                IF proc[p].op = "issue"
                THEN [proc[p] EXCEPT !.pc = "done", !.result = "ok", !.newToken = id,
                                     !.refreshToken = id, !.path = "issue"]
                ELSE [proc[p] EXCEPT !.pc = "markRotated", !.newToken = id]]
    /\ UNCHANGED <<userVersion, alerts, now, calls>>
    /\ UNCHANGED <<secVars, req>>

\* rotateRefreshToken steps 1 and 2: jwt.verify of the presented string (it
\* reads no storage and is taken together with the lookup), findFirst with
\* the owner's token version, then the checks of steps 3 to 5 on what was read
\* (first a variant that checks for reuse before the token version, then the code's)
RotateLookupReuseFirst(p, tok, fp) ==
    /\ CanStart(p)
    /\ LET call == [Idle EXCEPT !.op = "rotate", !.token = tok, !.reqFp = fp]
           rec == tokens[tok]
           uv == userVersion[rec.userId]
           read == [call EXCEPT !.userId = rec.userId, !.familyId = rec.familyId,
                                !.fingerprint = StoredFingerprint(rec, fp),
                                !.replacedByToken = rec.replacedByToken]
       IN proc' = [proc EXCEPT ![p] =
            IF ~JwtSigned(tokens, tok)
                 THEN [call EXCEPT !.pc = "done", !.result = "InvalidCredential"]
            ELSE IF JwtExpired(tokens, tok, now) \/ RecordExpired(rec, now)
                 THEN [call EXCEPT !.pc = "done", !.result = "ExpiredCredential"]
            ELSE IF ReuseSuspected(rec)
                 THEN IF InGrace(rec, now)
                      THEN [read EXCEPT !.pc = "graceLookup"]
                      ELSE [read EXCEPT !.pc = "revokeFamily", !.reason = "token_reuse"]
            ELSE IF VersionOutdated(rec, uv) THEN [read EXCEPT !.pc = "revokeSelf"]
            ELSE IF FingerprintMismatch(rec, fp)
                 THEN [read EXCEPT !.pc = "revokeFamily", !.reason = "device_mismatch"]
            ELSE [read EXCEPT !.pc = "genFindUser"]]
    /\ UNCHANGED <<tokens, userVersion, alerts, now>>
    /\ calls' = calls + 1
    /\ UNCHANGED secVars
RotateLookup(p, tok, fp) ==
    /\ CanStart(p)
    /\ LET call == [Idle EXCEPT !.op = "rotate", !.token = tok, !.reqFp = fp]
           rec == tokens[tok]
           uv == userVersion[rec.userId]
           read == [call EXCEPT !.userId = rec.userId, !.familyId = rec.familyId,
                                !.fingerprint = StoredFingerprint(rec, fp),
                                !.replacedByToken = rec.replacedByToken]
       IN proc' = [proc EXCEPT ![p] =
            IF ~JwtSigned(tokens, tok)
                 THEN [call EXCEPT !.pc = "done", !.result = "InvalidCredential"]
            ELSE IF JwtExpired(tokens, tok, now) \/ RecordExpired(rec, now)
                 THEN [call EXCEPT !.pc = "done", !.result = "ExpiredCredential"]
            ELSE IF VersionOutdated(rec, uv) THEN [read EXCEPT !.pc = "revokeSelf"]
            ELSE IF ReuseSuspected(rec)
                 THEN IF InGrace(rec, now)
                      THEN [read EXCEPT !.pc = "graceLookup"]
                      ELSE [read EXCEPT !.pc = "revokeFamily", !.reason = "token_reuse"]
            ELSE IF FingerprintMismatch(rec, fp)
                 THEN [read EXCEPT !.pc = "revokeFamily", !.reason = "device_mismatch"]
            ELSE [read EXCEPT !.pc = "genFindUser"]]
    /\ UNCHANGED <<tokens, userVersion, alerts, now>>
    /\ calls' = calls + 1
    /\ UNCHANGED secVars

\* step 3: the outdated row is flagged, the call fails
RotateRevokeSelf(p) ==
    /\ At(p, "revokeSelf")
    /\ tokens' = RevokeTokenIn(tokens, proc[p].token)
    /\ proc' = [proc EXCEPT ![p] = Finish(p, "SessionInvalidated", NULL, "none")]
    /\ UNCHANGED <<userVersion, alerts, now, calls>>
    /\ UNCHANGED <<secVars, req>>

\* step 4, grace period: the replacement row is read; usable, it is returned
\* with a fresh access token, otherwise the call goes on to the theft response
\* (first a variant that also stamps lastUsedAt of the replacement, then the code's)
RotateGraceLookupTouching(p) ==
    /\ At(p, "graceLookup")
    /\ LET repl == proc[p].replacedByToken
       IN /\ proc' = [proc EXCEPT ![p] =
                IF ReplacementUsable(tokens, repl, now)
                THEN Finish(p, "ok", repl, "grace")
                ELSE [proc[p] EXCEPT !.pc = "revokeFamily", !.reason = "token_reuse"]]
          /\ tokens' = IF ReplacementUsable(tokens, repl, now)
                       THEN [tokens EXCEPT ![repl].lastUsedAt = now]
                       ELSE tokens
    /\ UNCHANGED <<userVersion, alerts, now, calls>>
    /\ UNCHANGED <<secVars, req>>
RotateGraceLookup(p) ==
    /\ At(p, "graceLookup")
    /\ LET repl == proc[p].replacedByToken
       IN proc' = [proc EXCEPT ![p] =
            IF ReplacementUsable(tokens, repl, now)
            THEN Finish(p, "ok", repl, "grace")
            ELSE [proc[p] EXCEPT !.pc = "revokeFamily", !.reason = "token_reuse"]]
    /\ UNCHANGED <<tokens, userVersion, alerts, now, calls>>
    /\ UNCHANGED <<secVars, req>>

\* steps 4 and 5, failure: revokeTokenFamily is awaited, createSecurityAlert
\* is started and not awaited, the call throws
RotateRevokeFamily(p) ==
    /\ At(p, "revokeFamily")
    /\ tokens' = RevokeFamilyIn(tokens, proc[p].familyId)
    /\ proc' = [proc EXCEPT ![p] =
            [Finish(p, IF proc[p].reason = "token_reuse" THEN "TokenReuseDetected"
                       ELSE "DeviceMismatch", NULL, "none")
                EXCEPT !.alert = proc[p].reason]]
    /\ UNCHANGED <<userVersion, alerts, now, calls>>
    /\ UNCHANGED <<secVars, req>>

\* The alert row of a failed rotation.  The write was started before the
\* throw; nothing reads security_alerts, so it is taken to settle before the
\* response is sent.  securityAlert.create succeeds
AlertRow(p) == NewAlert(proc[p].userId, proc[p].alert, proc[p].familyId)

\* the write fails: .catch(() => {})
AlertLost(p) ==
    /\ proc[p].pc = "done"
    /\ proc[p].alert # "none"
    /\ proc' = [proc EXCEPT ![p].alert = "none"]
    /\ UNCHANGED <<tokens, userVersion, alerts, now, calls, secVars, req>>

AlertWritten(p) ==
    /\ proc[p].pc = "done"
    /\ proc[p].alert # "none"
    /\ alerts' = alerts (+) SetToBag({AlertRow(p)})
    /\ proc' = [proc EXCEPT ![p].alert = "none"]
    /\ UNCHANGED <<tokens, userVersion, now, calls, secVars, req>>

\* step 6: generateRefreshToken for the same family: user.findUnique, then
\* the token is signed and expiresAt computed
RotateGenFindUser(p) ==
    /\ At(p, "genFindUser")
    /\ proc' = [proc EXCEPT ![p] = [proc[p] EXCEPT
                    !.pc = "genCreate",
                    !.tokenVersion = IssueVersion(userVersion[proc[p].userId]),
                    !.expiresAt = now + RefreshExpirySec]]
    /\ UNCHANGED <<tokens, userVersion, alerts, now, calls>>
    /\ UNCHANGED <<secVars, req>>

\* step 7 and 8: the old row is marked rotated, the new pair is returned
RotateMarkRotated(p) ==
    /\ At(p, "markRotated")
    /\ tokens' = [tokens EXCEPT ![proc[p].token] =
                    MarkRotated(tokens[proc[p].token], proc[p].newToken, now)]
    /\ proc' = [proc EXCEPT ![p] = Finish(p, "ok", proc[p].newToken, "rotated")]
    /\ UNCHANGED <<userVersion, alerts, now, calls>>
    /\ UNCHANGED <<secVars, req>>

\* incrementUserTokenVersion: user.update({ tokenVersion: { increment: 1 } })
IncrementVersion(p, u) ==
    /\ CanStart(p)
    /\ UserOrder(u)
    /\ userVersion' = [userVersion EXCEPT ![u] = @ + 1]
    /\ proc' = [proc EXCEPT ![p] = [Idle EXCEPT !.pc = "revokeAll",
                    !.op = "incrementVersion", !.userId = u]]
    /\ UNCHANGED <<tokens, alerts, now>>
    /\ calls' = calls + 1
    /\ UNCHANGED <<secVars, req>>

\* incrementUserTokenVersion: revokeAllUserTokens
IncrementRevokeAll(p) ==
    /\ At(p, "revokeAll")
    /\ tokens' = RevokeUserIn(tokens, proc[p].userId)
    /\ proc' = [proc EXCEPT ![p] = Finish(p, "ok", NULL, "none")]
    /\ UNCHANGED <<userVersion, alerts, now, calls>>
    /\ UNCHANGED <<secVars, req>>

\* revokeRefreshToken (logout)
RevokeRefreshToken(tok) ==
    /\ Delivered
    /\ calls < MaxCalls
    /\ tokens' = RevokeTokenIn(tokens, tok)
    /\ tokens' # tokens
    /\ UNCHANGED <<userVersion, alerts, now, proc>>
    /\ calls' = calls + 1
    /\ UNCHANGED <<secVars, req>>

\* revokeDevice: findFirst({ id, userId }), then revokeTokenFamily of the row
\* found, nothing when none is found; one step, a row's userId and familyId
\* never change after its creation
\* (first a variant that finds the row by its id alone, then the code's)
RevokeDeviceUnscoped(u, id) ==
    /\ Delivered
    /\ calls < MaxCalls
    /\ id \in TokenIds
    /\ tokens' = RevokeFamilyIn(tokens, tokens[id].familyId)
    /\ UNCHANGED <<userVersion, alerts, now, proc>>
    /\ calls' = calls + 1
    /\ UNCHANGED <<secVars, req>>
RevokeDevice(u, id) ==
    /\ Delivered
    /\ calls < MaxCalls
    /\ id \in TokenIds
    /\ tokens' = IF tokens[id].userId = u
                 THEN RevokeFamilyIn(tokens, tokens[id].familyId) ELSE tokens
    /\ UNCHANGED <<userVersion, alerts, now, proc>>
    /\ calls' = calls + 1
    /\ UNCHANGED <<secVars, req>>

\* revokeAllUserTokens (revoke all sessions)
RevokeAllUserTokens(u) ==
    /\ Delivered
    /\ calls < MaxCalls
    /\ tokens' = RevokeUserIn(tokens, u)
    /\ tokens' # tokens
    /\ UNCHANGED <<userVersion, alerts, now, proc>>
    /\ calls' = calls + 1
    /\ UNCHANGED <<secVars, req>>

\* the response is sent, the request ends
Done(p) ==
    /\ proc[p].pc = "done"
    /\ proc[p].alert = "none"
    /\ proc' = [proc EXCEPT ![p] = Idle]
    /\ UNCHANGED <<tokens, userVersion, alerts, now, calls>>
    /\ UNCHANGED <<secVars, req>>

\* time passes
Tick(t) ==
    /\ Delivered
    /\ t > now
    /\ now' = t
    /\ UNCHANGED <<tokens, userVersion, alerts, calls, proc>>
    /\ UNCHANGED <<secVars, req>>

\* ------------------------------------------- security event processor

\* normalizeIp: 'unknown' for none, the IPv4 part of an IPv6-mapped
\* address, 127.0.0.1 for ::1, the address itself otherwise
NormalizeIp(ip) ==
    IF ip = NONE THEN "unknown"
    ELSE IF ip = "::ffff:10.0.0.1" THEN "10.0.0.1"
    ELSE IF ip = "::ffff:10.0.0.2" THEN "10.0.0.2"
    ELSE IF ip = "::1" THEN "127.0.0.1"
    ELSE ip

\* trusted_devices rows are kept in the order of their creation, a row's
\* position is its id; a deleted row leaves its place marked
TrustedIds(tr, u, fp) ==
    {i \in 1..Len(tr) : ~tr[i].deleted /\ tr[i].userId = u /\ tr[i].deviceFingerprint = fp}

\* trustedDevice.findUnique({ userId, deviceFingerprint })
FindTrusted(tr, u, fp) ==
    IF TrustedIds(tr, u, fp) = {} THEN NULL ELSE CHOOSE i \in TrustedIds(tr, u, fp) : TRUE

\* loginHistory.findFirst({ userId, deviceFingerprint }) and ({ userId, ipAddress })
\* (first a variant that looks at the events of every user, then the code's)
SeenDeviceAnyUser(h, u, fp) ==
    \E r \in BagToSet(h) : r.deviceFingerprint = fp
SeenDevice(h, u, fp) ==
    \E r \in BagToSet(h) : r.userId = u /\ r.deviceFingerprint = fp
SeenIp(h, u, ip) ==
    \E r \in BagToSet(h) : r.userId = u /\ r.ipAddress = ip

\* isNewDevice ? 'new_device' : isNewIp ? 'new_ip' : eventType
ActualEventType(isNewDevice, isNewIp, eventType) ==
    IF isNewDevice THEN "new_device" ELSE IF isNewIp THEN "new_ip" ELSE eventType

\* the alert rows of processAuthEvent name no family
ObserveAlert(u, type) == NewAlert(u, type, NULL)

ObserveAt(p, label) == obs[p].pc = label /\ \A q \in Procs : obs[q].pc # "done"

ObserveReturn(p, res) == [obs[p] EXCEPT !.pc = "done", !.result = res]

\* processAuthEvent is called: address and fingerprint are derived, the
\* first query is issued
ObserveCall(p, u, fp, rawIp, kind) ==
    [NoObserve EXCEPT !.pc = "findTrusted", !.userId = u, !.fingerprint = fp,
                      !.ip = NormalizeIp(rawIp), !.eventType = kind]

\* trustedDevice.findUnique
ObserveFindTrusted(p) ==
    /\ ObserveAt(p, "findTrusted")
    /\ LET id == FindTrusted(trusted, obs[p].userId, obs[p].fingerprint)
       IN obs' = [obs EXCEPT ![p] =
            IF id # NULL THEN [obs[p] EXCEPT !.pc = "touch", !.trustedId = id]
            ELSE [obs[p] EXCEPT !.pc = "findDevice"]]
    /\ UNCHANGED <<tokens, userVersion, alerts, now, calls, proc, trusted, history,
                   blacklist, signed, req>>
    /\ UNCHANGED appVars

\* trusted: trustedDevice.update({ where: { id } }); it rejects when the row
\* is gone.  A token refresh returns here, a login goes on to record the event
\* (first a variant that records every kind of event, then the code's)
ObserveTouchLoggingAll(p) ==
    /\ ObserveAt(p, "touch")
    /\ ~trusted[obs[p].trustedId].deleted
    /\ trusted' = [trusted EXCEPT ![obs[p].trustedId].lastUsedAt = now,
                                  ![obs[p].trustedId].lastIpAddress = obs[p].ip]
    /\ obs' = [obs EXCEPT ![p] = [obs[p] EXCEPT !.pc = "recordFind",
                                               !.actualEventType = obs[p].eventType]]
    /\ UNCHANGED <<tokens, userVersion, alerts, now, calls, proc, history,
                   blacklist, signed, req>>
    /\ UNCHANGED appVars
ObserveTouch(p) ==
    /\ ObserveAt(p, "touch")
    /\ LET id == obs[p].trustedId
       IN IF trusted[id].deleted
          THEN /\ obs' = [obs EXCEPT ![p] = ObserveReturn(p, "rejected")]
               /\ UNCHANGED trusted
          ELSE /\ trusted' = [trusted EXCEPT ![id].lastUsedAt = now,
                                             ![id].lastIpAddress = obs[p].ip]
               /\ obs' = [obs EXCEPT ![p] =
                    IF obs[p].eventType = "login"
                    THEN [obs[p] EXCEPT !.pc = "recordFind",
                                        !.actualEventType = obs[p].eventType]
                    ELSE ObserveReturn(p, "trusted")]
    /\ UNCHANGED <<tokens, userVersion, alerts, now, calls, proc, history,
                   blacklist, signed, req>>
    /\ UNCHANGED appVars

\* not trusted: loginHistory.findFirst by fingerprint
ObserveFindDevice(p) ==
    /\ ObserveAt(p, "findDevice")
    /\ obs' = [obs EXCEPT ![p] = [obs[p] EXCEPT !.pc = "findIp",
                !.isNewDevice = ~SeenDevice(history, obs[p].userId, obs[p].fingerprint)]]
    /\ UNCHANGED <<tokens, userVersion, alerts, now, calls, proc, trusted, history,
                   blacklist, signed, req>>
    /\ UNCHANGED appVars

\* loginHistory.findFirst by address; the event type is settled
ObserveFindIp(p) ==
    /\ ObserveAt(p, "findIp")
    /\ LET newIp == ~SeenIp(history, obs[p].userId, obs[p].ip)
       IN obs' = [obs EXCEPT ![p] = [obs[p] EXCEPT !.pc = "recordFind",
                !.isNewIp = newIp,
                !.actualEventType =
                    ActualEventType(obs[p].isNewDevice, newIp, obs[p].eventType)]]
    /\ UNCHANGED <<tokens, userVersion, alerts, now, calls, proc, trusted, history,
                   blacklist, signed, req>>
    /\ UNCHANGED appVars

\* recordLoginEvent: normalizeIp again, trustedDevice.findUnique
ObserveRecordFind(p) ==
    /\ ObserveAt(p, "recordFind")
    /\ obs' = [obs EXCEPT ![p] = [obs[p] EXCEPT !.pc = "recordCreate",
                !.ip = NormalizeIp(obs[p].ip),
                !.isTrustedDevice =
                    FindTrusted(trusted, obs[p].userId, obs[p].fingerprint) # NULL]]
    /\ UNCHANGED <<tokens, userVersion, alerts, now, calls, proc, trusted, history,
                   blacklist, signed, req>>
    /\ UNCHANGED appVars

\* recordLoginEvent: loginHistory.create; then the alert the event calls for
\* (first a variant that also trusts a device seen before, then the code's)
ObserveRecordCreatePromoting(p) ==
    /\ ObserveAt(p, "recordCreate")
    /\ history' = history (+) SetToBag({
            [userId |-> obs[p].userId, ipAddress |-> obs[p].ip,
             deviceFingerprint |-> obs[p].fingerprint,
             isTrustedDevice |-> obs[p].isTrustedDevice,
             eventType |-> obs[p].actualEventType]})
    /\ trusted' = IF obs[p].trustedId = NULL /\ ~obs[p].isNewDevice
                  THEN Append(trusted, [userId |-> obs[p].userId,
                                        deviceFingerprint |-> obs[p].fingerprint,
                                        lastIpAddress |-> obs[p].ip,
                                        lastUsedAt |-> now, deleted |-> FALSE])
                  ELSE trusted
    /\ LET o == [obs[p] EXCEPT !.logged = Append(@, obs[p].actualEventType)]
       IN obs' = [obs EXCEPT ![p] =
            IF obs[p].trustedId # NULL
                 THEN [o EXCEPT !.pc = "done", !.result = "trusted"]
            ELSE IF obs[p].isNewDevice THEN [o EXCEPT !.pc = "alertDevice"]
            ELSE IF obs[p].isNewIp THEN [o EXCEPT !.pc = "alertIp"]
            ELSE [o EXCEPT !.pc = "done", !.result = "untrusted"]]
    /\ UNCHANGED <<tokens, userVersion, alerts, now, calls, proc,
                   blacklist, signed, req>>
    /\ UNCHANGED appVars
ObserveRecordCreate(p) ==
    /\ ObserveAt(p, "recordCreate")
    /\ history' = history (+) SetToBag({
            [userId |-> obs[p].userId, ipAddress |-> obs[p].ip,
             deviceFingerprint |-> obs[p].fingerprint,
             isTrustedDevice |-> obs[p].isTrustedDevice,
             eventType |-> obs[p].actualEventType]})
    /\ LET o == [obs[p] EXCEPT !.logged = Append(@, obs[p].actualEventType)]
       IN obs' = [obs EXCEPT ![p] =
            IF obs[p].trustedId # NULL
                 THEN [o EXCEPT !.pc = "done", !.result = "trusted"]
            ELSE IF obs[p].isNewDevice THEN [o EXCEPT !.pc = "alertDevice"]
            ELSE IF obs[p].isNewIp THEN [o EXCEPT !.pc = "alertIp"]
            ELSE [o EXCEPT !.pc = "done", !.result = "untrusted"]]
    /\ UNCHANGED <<tokens, userVersion, alerts, now, calls, proc, trusted,
                   blacklist, signed, req>>
    /\ UNCHANGED appVars

\* createSecurityAlert new_device; isNewIp && !isNewDevice is false after it
ObserveAlertDevice(p) ==
    /\ ObserveAt(p, "alertDevice")
    /\ alerts' = alerts (+) SetToBag({ObserveAlert(obs[p].userId, "new_device")})
    /\ obs' = [obs EXCEPT ![p] = [obs[p] EXCEPT !.pc = "done", !.result = "untrusted",
                !.raised = Append(@, "new_device")]]
    /\ UNCHANGED <<tokens, userVersion, now, calls, proc, trusted, history,
                   blacklist, signed, req>>
    /\ UNCHANGED appVars

\* createSecurityAlert new_location
ObserveAlertIp(p) ==
    /\ ObserveAt(p, "alertIp")
    /\ alerts' = alerts (+) SetToBag({ObserveAlert(obs[p].userId, "new_location")})
    /\ obs' = [obs EXCEPT ![p] = [obs[p] EXCEPT !.pc = "done", !.result = "untrusted",
                !.raised = Append(@, "new_location")]]
    /\ UNCHANGED <<tokens, userVersion, now, calls, proc, trusted, history,
                   blacklist, signed, req>>
    /\ UNCHANGED appVars

\* the promise settles; every caller drops the outcome (.catch(() => {}))
ObserveSettled(p) ==
    /\ obs[p].pc = "done"
    /\ obs' = [obs EXCEPT ![p] = NoObserve]
    /\ UNCHANGED <<tokens, userVersion, alerts, now, calls, proc, trusted, history,
                   blacklist, signed, req>>
    /\ UNCHANGED appVars

\* addTrustedDevice: trustedDevice.upsert on (userId, deviceFingerprint)
\* (first a variant that creates a row whether or not there is one, then the code's)
AddTrustedDeviceAppending(u, fp, rawIp) ==
    /\ calls < MaxEvents
    /\ \A q \in Procs : obs[q].pc # "done"
    /\ trusted' = Append(trusted, [userId |-> u, deviceFingerprint |-> fp,
                                  lastIpAddress |-> NormalizeIp(rawIp),
                                  lastUsedAt |-> now, deleted |-> FALSE])
    /\ calls' = calls + 1
    /\ UNCHANGED <<tokens, userVersion, alerts, now, proc, history, obs,
                   blacklist, signed, req>>
    /\ UNCHANGED appVars
AddTrustedDevice(u, fp, rawIp) ==
    /\ calls < MaxEvents
    /\ \A q \in Procs : obs[q].pc # "done"
    /\ LET id == FindTrusted(trusted, u, fp)
       IN trusted' =
            IF id # NULL
            THEN [trusted EXCEPT ![id].lastIpAddress = NormalizeIp(rawIp),
                                 ![id].lastUsedAt = now]
            ELSE Append(trusted, [userId |-> u, deviceFingerprint |-> fp,
                                  lastIpAddress |-> NormalizeIp(rawIp),
                                  lastUsedAt |-> now, deleted |-> FALSE])
    /\ calls' = calls + 1
    /\ UNCHANGED <<tokens, userVersion, alerts, now, proc, history, obs,
                   blacklist, signed, req>>
    /\ UNCHANGED appVars

\* removeTrustedDevice: trustedDevice.deleteMany({ id, userId })
RemoveTrustedDevice(u, id) ==
    /\ calls < MaxEvents
    /\ \A q \in Procs : obs[q].pc # "done"
    /\ id \in 1..Len(trusted)
    /\ trusted' = IF trusted[id].userId = u
                  THEN [trusted EXCEPT ![id].deleted = TRUE] ELSE trusted
    /\ calls' = calls + 1
    /\ UNCHANGED <<tokens, userVersion, alerts, now, proc, history, obs,
                   blacklist, signed, req>>
    /\ UNCHANGED appVars

\* A login or a silent refresh has handed out its tokens and calls
\* processAuthEvent.  Requests are interchangeable, and so are users,
\* fingerprints and addresses nothing refers to yet.
ObserverFree(p) ==
    /\ calls < MaxEvents
    /\ ObserveAt(p, "idle")
    /\ p = "p2" => obs["p1"].pc # "idle"

ObservedUser(u) ==
    \/ \E i \in 1..Len(trusted) : trusted[i].userId = u
    \/ \E r \in BagToSet(history) : r.userId = u
    \/ \E p \in Procs : obs[p].userId = u
ObservedFingerprint(f) ==
    \/ \E i \in 1..Len(trusted) : trusted[i].deviceFingerprint = f
    \/ \E r \in BagToSet(history) : r.deviceFingerprint = f
    \/ \E p \in Procs : obs[p].fingerprint = f
ObservedOrder(u, fp) ==
    /\ u = "u2" => ObservedUser("u1")
    /\ fp = "f2" => ObservedFingerprint("f1")

ProcessAuthEvent(p, u, fp, rawIp, kind) ==
    /\ ObserverFree(p)
    /\ ObservedOrder(u, fp)
    /\ obs' = [obs EXCEPT ![p] = ObserveCall(p, u, fp, rawIp, kind)]
    /\ calls' = calls + 1
    /\ UNCHANGED <<tokens, userVersion, alerts, now, proc, trusted, history,
                   blacklist, signed, req>>
    /\ UNCHANGED appVars

TrustDevice(u, fp, rawIp) == ObservedOrder(u, fp) /\ AddTrustedDevice(u, fp, rawIp)

ObserveTick(t) ==
    /\ \A q \in Procs : obs[q].pc # "done"
    /\ t > now
    /\ now' = t
    /\ UNCHANGED <<tokens, userVersion, alerts, calls, proc, trusted, history, obs,
                   blacklist, signed, req>>
    /\ UNCHANGED appVars

NextObserve ==
    \/ \E p \in Procs, u \in Users, fp \in Fingerprints, ip \in RawIps,
          kind \in EventKinds : ProcessAuthEvent(p, u, fp, ip, kind)
    \/ \E p \in Procs : ObserveFindTrusted(p)
    \/ \E p \in Procs : ObserveTouch(p)
    \/ \E p \in Procs : ObserveFindDevice(p)
    \/ \E p \in Procs : ObserveFindIp(p)
    \/ \E p \in Procs : ObserveRecordFind(p)
    \/ \E p \in Procs : ObserveRecordCreate(p)
    \/ \E p \in Procs : ObserveAlertDevice(p)
    \/ \E p \in Procs : ObserveAlertIp(p)
    \/ \E p \in Procs : ObserveSettled(p)
    \/ \E u \in Users, fp \in Fingerprints, ip \in RawIps : TrustDevice(u, fp, ip)
    \/ \E u \in Users, id \in 1..Len(trusted) :
            RemoveTrustedDevice(u, id) /\ trusted' # trusted
    \/ \E t \in EventTimes : ObserveTick(t)

SpecObserve == Init /\ [][NextObserve]_vars

\* the requests of the token endpoints: a login and POST /auth/refresh
GenerateTokenPair(p, u, fp) == IssueFindUser(p, u, fp) /\ UNCHANGED req
RefreshAccessToken(p, tok, fp) == RotateLookup(p, tok, fp) /\ UNCHANGED req

Next ==
    \/ \E p \in Procs, u \in Users, fp \in Fingerprints : GenerateTokenPair(p, u, fp)
    \/ \E p \in Procs : GenCreate(p)
    \/ \E p \in Procs, tok \in TokenIds \cup {BogusToken},
          fp \in Fingerprints \cup {NONE} : RefreshAccessToken(p, tok, fp)
    \/ \E p \in Procs : RotateRevokeSelf(p)
    \/ \E p \in Procs : RotateGraceLookup(p)
    \/ \E p \in Procs : RotateRevokeFamily(p)
    \/ \E p \in Procs : AlertWritten(p)
    \/ \E p \in Procs : AlertLost(p)
    \/ \E p \in Procs : RotateGenFindUser(p)
    \/ \E p \in Procs : RotateMarkRotated(p)
    \/ \E p \in Procs, u \in Users : IncrementVersion(p, u)
    \/ \E p \in Procs : IncrementRevokeAll(p)
    \/ \E tok \in TokenIds : RevokeRefreshToken(tok)
    \/ \E u \in Users, id \in TokenIds : RevokeDevice(u, id) /\ tokens' # tokens
    \/ \E u \in Users : RevokeAllUserTokens(u)
    \/ \E p \in Procs : Done(p)
    \/ \E t \in Times : Tick(t)

Spec == Init /\ [][Next]_vars

TypeOK ==
    /\ Len(tokens) <= calls
    /\ \A u \in Users : userVersion[u] \in 1..(1 + calls)
    /\ now \in Times
    /\ calls \in 0..MaxCalls

\* ------------------------------------------------------ claim vocabulary

Quiescent == \A p \in Procs : proc[p].pc = "idle"

FamilyRows(toks, fam) == {i \in 1..Len(toks) : toks[i].familyId = fam}
FamilyRevoked(toks, fam) == \A i \in FamilyRows(toks, fam) : toks[i].isRevoked

\* rows a later rotation would accept as the current end of their chain
Heads(fam) ==
    {i \in FamilyRows(tokens, fam) :
        ~tokens[i].isRevoked /\ tokens[i].replacedByToken = NULL}

\* the step in which a rotation of a stored token is started by p: the
\* string is verified and its row looked up
RotateStarts(p) ==
    /\ proc[p].pc = "idle" /\ proc'[p].pc # "idle"
    /\ proc'[p].op = "rotate"
    /\ proc'[p].token \in TokenIds

\* the row that rotation presents, as the lookup finds it
Presented(p) == tokens[proc'[p].token]

\* the step in which call p leaves the given position
Leaves(p, label) == proc[p].pc = label /\ proc'[p].pc # label

\* the outcome with which call p ends in this step
Ends(p, res) == proc'[p].pc = "done" /\ proc'[p].result = res

StorageUnchanged == UNCHANGED <<tokens, userVersion, alerts>>

\* C1: two rotations of one and the same token never both create a
\* successor: one creates it, the other is answered from the grace path, and
\* the family gets no third row.
C1_OneSuccessorPerToken ==
    \A p, q \in Procs :
        (/\ p # q
         /\ proc[p].op = "rotate" /\ proc[q].op = "rotate"
         /\ proc[p].token = proc[q].token)
        => ~(proc[p].newToken # NULL /\ proc[q].newToken # NULL)

\* C2: every family has at most one row that is neither rotated nor revoked.
\* The claim speaks of every state; it is stated here for the states in
\* which no call is in flight, where it holds a fortiori if it holds at all.
C2_AtMostOneHeadPerFamily ==
    Quiescent => \A i \in TokenIds : Cardinality(Heads(tokens[i].familyId)) <= 1

\* C3, as claimed: a rotation that finds its token already rotated, with the
\* grace window over, always takes the theft response: it fails with
\* TokenReuseDetected and leaves the whole family revoked.
C3_RotatedAfterGraceIsAlwaysReuse ==
    [][\A p \in Procs :
        /\ (/\ RotateStarts(p)
            /\ Presented(p).replacedByToken # NULL
            /\ (now - Presented(p).rotatedAt) * 1000 >= ROTATION_GRACE_MS)
           => (proc'[p].pc = "revokeFamily" /\ proc'[p].reason = "token_reuse")
        /\ (Leaves(p, "revokeFamily") /\ proc[p].reason = "token_reuse")
           => (Ends(p, "TokenReuseDetected")
               /\ FamilyRevoked(tokens', proc[p].familyId))]_vars

\* C3, amended: the same for a token that is not expired and whose version is
\* not below its owner's; an expired token fails with ExpiredCredential and
\* an outdated one with SessionInvalidated before the reuse check is reached.
C3_RotatedAfterGraceIsReuse ==
    [][\A p \in Procs :
        /\ (/\ RotateStarts(p)
            /\ Presented(p).replacedByToken # NULL
            /\ (now - Presented(p).rotatedAt) * 1000 >= ROTATION_GRACE_MS
            /\ now < Presented(p).expiresAt
            /\ Presented(p).tokenVersion >= userVersion[Presented(p).userId])
           => (proc'[p].pc = "revokeFamily" /\ proc'[p].reason = "token_reuse")
        /\ (Leaves(p, "revokeFamily") /\ proc[p].reason = "token_reuse")
           => (Ends(p, "TokenReuseDetected")
               /\ FamilyRevoked(tokens', proc[p].familyId))]_vars

\* a call has just failed with TokenReuseDetected on a token rotated at least
\* the grace window ago; its successor is revoked with the rest of the family
C3_Witness ==
    \E p \in Procs :
        /\ proc[p].pc = "done" /\ proc[p].result = "TokenReuseDetected"
        /\ tokens[proc[p].token].replacedByToken # NULL
        /\ (now - tokens[proc[p].token].rotatedAt) * 1000 >= ROTATION_GRACE_MS
        /\ tokens[tokens[proc[p].token].replacedByToken].isRevoked
        /\ FamilyRevoked(tokens, tokens[proc[p].token].familyId)

\* the row the presented one names as its replacement is there, is not
\* revoked and is not expired
SuccessorUsable(succ) ==
    /\ succ \in TokenIds
    /\ ~tokens[succ].isRevoked
    /\ now < tokens[succ].expiresAt

\* C4, as claimed: a rotation that finds its token rotated less than the
\* grace window ago, the successor being usable, reads the successor and
\* returns it; no step of the call changes a row, a version or an alert.
C4_GraceAlwaysReturnsSuccessor ==
    [][\A p \in Procs :
        /\ (/\ RotateStarts(p)
            /\ Presented(p).replacedByToken # NULL
            /\ (now - Presented(p).rotatedAt) * 1000 < ROTATION_GRACE_MS
            /\ SuccessorUsable(Presented(p).replacedByToken))
           => (proc'[p].pc = "graceLookup" /\ StorageUnchanged)
        /\ (Leaves(p, "graceLookup") /\ SuccessorUsable(proc[p].replacedByToken))
           => (/\ Ends(p, "ok")
               /\ proc'[p].refreshToken = proc[p].replacedByToken
               /\ StorageUnchanged)]_vars

\* C4, amended: the same for a token that is not expired and whose version is
\* not below its owner's, the successor being usable when the call reads it.
C4_GraceReturnsSuccessor ==
    [][\A p \in Procs :
        /\ (/\ RotateStarts(p)
            /\ Presented(p).replacedByToken # NULL
            /\ (now - Presented(p).rotatedAt) * 1000 < ROTATION_GRACE_MS
            /\ SuccessorUsable(Presented(p).replacedByToken)
            /\ now < Presented(p).expiresAt
            /\ Presented(p).tokenVersion >= userVersion[Presented(p).userId])
           => (proc'[p].pc = "graceLookup" /\ StorageUnchanged)
        /\ (Leaves(p, "graceLookup") /\ SuccessorUsable(proc[p].replacedByToken))
           => (/\ Ends(p, "ok")
               /\ proc'[p].refreshToken = proc[p].replacedByToken
               /\ StorageUnchanged)]_vars

\* a call has just been answered from the grace path with the successor of
\* the rotated token it presented
C4_Witness ==
    \E p \in Procs :
        /\ proc[p].pc = "done" /\ proc[p].result = "ok" /\ proc[p].path = "grace"
        /\ proc[p].refreshToken = tokens[proc[p].token].replacedByToken
        /\ (now - tokens[proc[p].token].rotatedAt) * 1000 < ROTATION_GRACE_MS
        /\ ~tokens[proc[p].refreshToken].isRevoked

\* C5, as claimed: a rotation of a token whose version is below its owner's
\* always fails with SessionInvalidated.
C5_OutdatedAlwaysSessionInvalidated ==
    [][\A p \in Procs :
        /\ (/\ RotateStarts(p)
            /\ Presented(p).tokenVersion < userVersion[Presented(p).userId])
           => proc'[p].pc = "revokeSelf"
        /\ Leaves(p, "revokeSelf") => Ends(p, "SessionInvalidated")]_vars

\* C5, amended: a rotation of an unexpired token whose version is below its
\* owner's fails with SessionInvalidated, revoked or not, rotated or not; an
\* expired one fails with ExpiredCredential.
C5_OutdatedSessionInvalidated ==
    [][\A p \in Procs :
        /\ (/\ RotateStarts(p)
            /\ Presented(p).tokenVersion < userVersion[Presented(p).userId]
            /\ now < Presented(p).expiresAt)
           => proc'[p].pc = "revokeSelf"
        /\ Leaves(p, "revokeSelf") => Ends(p, "SessionInvalidated")]_vars

\* a call has just failed with SessionInvalidated on a token issued before
\* its owner's version was raised
C5_Witness ==
    \E p \in Procs :
        /\ proc[p].pc = "done" /\ proc[p].result = "SessionInvalidated"
        /\ tokens[proc[p].token].tokenVersion < userVersion[tokens[proc[p].token].userId]

\* C6, as claimed: a rotation whose request fingerprint differs from the
\* stored one always fails with DeviceMismatch and leaves the family revoked.
C6_MismatchAlwaysDeviceMismatch ==
    [][\A p \in Procs :
        /\ (/\ RotateStarts(p)
            /\ proc'[p].reqFp # NONE
            /\ proc'[p].reqFp # Presented(p).deviceFingerprint)
           => (proc'[p].pc = "revokeFamily" /\ proc'[p].reason = "device_mismatch")
        /\ (Leaves(p, "revokeFamily") /\ proc[p].reason = "device_mismatch")
           => (Ends(p, "DeviceMismatch")
               /\ FamilyRevoked(tokens', proc[p].familyId))]_vars

\* C6, amended: the same for a token that is not expired, not outdated, not
\* revoked and not rotated; the earlier checks answer for the others.
C6_MismatchDeviceMismatch ==
    [][\A p \in Procs :
        /\ (/\ RotateStarts(p)
            /\ proc'[p].reqFp # NONE
            /\ proc'[p].reqFp # Presented(p).deviceFingerprint
            /\ now < Presented(p).expiresAt
            /\ Presented(p).tokenVersion >= userVersion[Presented(p).userId]
            /\ ~Presented(p).isRevoked
            /\ Presented(p).replacedByToken = NULL)
           => (proc'[p].pc = "revokeFamily" /\ proc'[p].reason = "device_mismatch")
        /\ (Leaves(p, "revokeFamily") /\ proc[p].reason = "device_mismatch")
           => (Ends(p, "DeviceMismatch")
               /\ FamilyRevoked(tokens', proc[p].familyId))]_vars

\* a call has just failed with DeviceMismatch, its fingerprint differing from
\* the stored one, and every row of the family is revoked
C6_Witness ==
    \E p \in Procs :
        /\ proc[p].pc = "done" /\ proc[p].result = "DeviceMismatch"
        /\ proc[p].reqFp # tokens[proc[p].token].deviceFingerprint
        /\ FamilyRevoked(tokens, tokens[proc[p].token].familyId)

\* C7: a rotation of a token that is fresh from issuePair (not expired, not
\* outdated, not revoked, not rotated) with the fingerprint it was issued for
\* succeeds: the call creates exactly one row, in the family of the presented
\* one, and returns that row's token.
C7_FreshRotationSucceeds ==
    [][\A p \in Procs :
        /\ (/\ RotateStarts(p)
            /\ proc'[p].reqFp = Presented(p).deviceFingerprint
            /\ now < Presented(p).expiresAt
            /\ Presented(p).tokenVersion >= userVersion[Presented(p).userId]
            /\ ~Presented(p).isRevoked
            /\ Presented(p).replacedByToken = NULL)
           => (proc'[p].pc = "genFindUser" /\ StorageUnchanged)
        /\ (proc[p].op = "rotate" /\ Leaves(p, "genFindUser"))
           => (proc'[p].pc = "genCreate" /\ StorageUnchanged)
        /\ (proc[p].op = "rotate" /\ Leaves(p, "genCreate"))
           => (/\ proc'[p].pc = "markRotated"
               /\ Len(tokens') = Len(tokens) + 1
               /\ proc'[p].newToken = Len(tokens')
               /\ tokens'[Len(tokens')].familyId = tokens[proc[p].token].familyId)
        /\ Leaves(p, "markRotated")
           => (/\ Ends(p, "ok")
               /\ proc'[p].refreshToken = proc[p].newToken
               /\ Len(tokens') = Len(tokens)
               /\ tokens'[proc'[p].refreshToken].familyId
                    = tokens'[proc[p].token].familyId)]_vars

\* a rotation has just returned the token of the row it created, which is in
\* the family of the presented token
C7_Witness ==
    \E p \in Procs :
        /\ proc[p].pc = "done" /\ proc[p].result = "ok" /\ proc[p].path = "rotated"
        /\ proc[p].refreshToken # proc[p].token
        /\ tokens[proc[p].refreshToken].familyId = tokens[proc[p].token].familyId
        /\ tokens[proc[p].token].replacedByToken = proc[p].refreshToken

\* C8: once a family has been revoked in answer to a reuse or a device
\* mismatch (the alert names the family), every row of it is revoked in
\* every later state.
C8_RevokedFamilyStaysRevoked ==
    \A a \in BagToSet(alerts) : FamilyRevoked(tokens, a.familyId)

\* C9: revokeAllForPrincipal is atomic: no state shows a row whose version is
\* below its owner's and which is not revoked.
C9_NoBumpedEpochWithLiveRows ==
    \A i \in TokenIds :
        tokens[i].tokenVersion < userVersion[tokens[i].userId] => tokens[i].isRevoked

\* C10: the row a rotation puts in place of another has that row's family,
\* fingerprint and version.
C10_SuccessorKeepsFamilyFingerprintEpoch ==
    \A i \in TokenIds :
        tokens[i].replacedByToken # NULL =>
            LET succ == tokens[tokens[i].replacedByToken]
            IN /\ succ.familyId = tokens[i].familyId
               /\ succ.deviceFingerprint = tokens[i].deviceFingerprint
               /\ succ.tokenVersion = tokens[i].tokenVersion

\* C11: the revoked flag is monotonic: a row that is revoked is still there
\* and still revoked after every step.
C11_RevokedIsMonotonic ==
    [][\A i \in TokenIds :
        tokens[i].isRevoked => (i \in 1..Len(tokens') /\ tokens'[i].isRevoked)]_vars

\* a rotation has just marked as rotated a row that was revoked while the
\* rotation was under way; the row is still revoked
C11_Witness ==
    \E p \in Procs :
        /\ proc[p].pc = "done" /\ proc[p].path = "rotated"
        /\ tokens[proc[p].token].replacedByToken = proc[p].refreshToken
        /\ tokens[proc[p].token].isRevoked

\* C12: after its creation a row keeps its place (its token string), its
\* family, owner, version, fingerprint and expiry; only isRevoked, rotatedAt,
\* replacedByToken and lastUsedAt are ever written.
C12_OnlyFourFieldsChange ==
    [][\A i \in TokenIds :
        /\ i \in 1..Len(tokens')
        /\ tokens'[i].familyId = tokens[i].familyId
        /\ tokens'[i].userId = tokens[i].userId
        /\ tokens'[i].tokenVersion = tokens[i].tokenVersion
        /\ tokens'[i].deviceFingerprint = tokens[i].deviceFingerprint
        /\ tokens'[i].expiresAt = tokens[i].expiresAt]_vars

\* a rotation has just flagged the row it found outdated by a version
\* increment: the row is revoked and still carries the version it was issued with
C12_Witness ==
    \E p \in Procs :
        /\ proc[p].pc = "done" /\ proc[p].result = "SessionInvalidated"
        /\ tokens[proc[p].token].isRevoked
        /\ tokens[proc[p].token].tokenVersion < userVersion[tokens[proc[p].token].userId]

\* C14: when a rotation has failed with TokenReuseDetected and its response
\* is sent, every row of the family is revoked and security_alerts holds a
\* token_reuse row for the owner and the family.
C14_ReuseAlwaysRevokedAndAlerted ==
    [][\A p \in Procs :
        (/\ proc[p].pc = "done" /\ proc[p].result = "TokenReuseDetected"
         /\ proc'[p].pc = "idle")
        => (/\ FamilyRevoked(tokens, proc[p].familyId)
               /\ BagIn([userId |-> proc[p].userId, alertType |-> "token_reuse",
                      familyId |-> proc[p].familyId,
                      isRead |-> FALSE, isDismissed |-> FALSE], alerts))]_vars

\* ------------------------------------------------------- authenticator

\* blacklistedTokens.has(token).  blacklist holds the calls of
\* blacklistAccessToken, each with its token and its time: the call adds the
\* token to the set and starts a timer that deletes it from the set
\* DenyListTtlSec later, whichever call added it.  The token is in the set
\* when a call has added it and no timer for it has run since.
Denied(a, bl, t) ==
    \E e \in bl :
        /\ e.token = a /\ e.at <= t
        /\ \A f \in bl : f.token = a => ~(e.at < f.at + DenyListTtlSec /\ f.at + DenyListTtlSec <= t)

\* verifyAccessToken: the deny-list, then jwt.verify (signature and exp)
\* (first a variant that does not look at the deny-list, then the code's)
VerifyAccessTokenUnlisted(a, bl, t) ==
    /\ a.userId # NONE
    /\ t < a.exp
VerifyAccessToken(a, bl, t) ==
    /\ ~Denied(a, bl, t)
    /\ a.userId # NONE
    /\ t < a.exp

\* the processes' requests and observe calls are free
HandlerFree(p) == req[p].pc = "idle" /\ obs[p].pc = "idle"

\* what the request brought as access credential
AccessState(hdr, bl, t) ==
    IF hdr.scheme = "none" THEN "absent"
    ELSE IF hdr.scheme # "Bearer" THEN "malformed"
    ELSE IF hdr.token.userId = NONE THEN "invalid"
    ELSE IF Denied(hdr.token, bl, t) THEN "denied"
    ELSE IF t >= hdr.token.exp THEN "expired"
    ELSE "valid"

Arrived(kind, hdr, tok) ==
    [NoRequest EXCEPT !.kind = kind, !.access = AccessState(hdr, blacklist, now),
                      !.refreshGiven = tok # NULL]

\* The request is answered without rotation: req.user, next(err)
\* (first a variant that calls next() without the error, then the code's)
AnswerWithoutError(r, id, err) == [r EXCEPT !.identity = id]
Answer(r, id, err) == [r EXCEPT !.identity = id, !.error = err]

\* authenticateJWT up to its await: header checks, verifyAccessToken, the
\* refresh header; the rotation is entered or the request is answered
\* (first a variant that rotates whenever a refresh header is there, then the code's)
AuthenticateJWTRefreshFirst(p, hdr, tok, fp, ip) ==
    /\ HandlerFree(p)
    /\ CanStart(p)
    /\ IF hdr.scheme = "Bearer" /\ tok # NULL
       THEN /\ RotateLookup(p, tok, fp)
            /\ req' = [req EXCEPT ![p] = [Arrived("authenticateJWT", hdr, tok) EXCEPT
                            !.pc = "rotating", !.fingerprint = fp, !.ip = ip]]
       ELSE /\ req' = [req EXCEPT ![p] =
                    IF hdr.scheme = "Bearer" /\ VerifyAccessToken(hdr.token, blacklist, now)
                    THEN Answer(Arrived("authenticateJWT", hdr, tok), hdr.token.userId, "none")
                    ELSE Answer(Arrived("authenticateJWT", hdr, tok), NONE, "AuthRequired")]
            /\ calls' = calls + 1
            /\ UNCHANGED <<tokens, userVersion, alerts, now, proc, secVars>>
AuthenticateJWT(p, hdr, tok, fp, ip) ==
    /\ HandlerFree(p)
    /\ CanStart(p)
    /\ IF hdr.scheme = "Bearer" /\ ~VerifyAccessToken(hdr.token, blacklist, now) /\ tok # NULL
       THEN /\ RotateLookup(p, tok, fp)
            /\ req' = [req EXCEPT ![p] = [Arrived("authenticateJWT", hdr, tok) EXCEPT
                            !.pc = "rotating", !.fingerprint = fp, !.ip = ip]]
       ELSE /\ req' = [req EXCEPT ![p] =
                    IF hdr.scheme = "Bearer" /\ VerifyAccessToken(hdr.token, blacklist, now)
                    THEN Answer(Arrived("authenticateJWT", hdr, tok), hdr.token.userId, "none")
                    ELSE Answer(Arrived("authenticateJWT", hdr, tok), NONE, "AuthRequired")]
            /\ calls' = calls + 1
            /\ UNCHANGED <<tokens, userVersion, alerts, now, proc, secVars>>

\* optionalAuth up to its await
OptionalAuth(p, hdr, tok, fp, ip) ==
    /\ HandlerFree(p)
    /\ CanStart(p)
    /\ IF hdr.scheme = "Bearer" /\ ~VerifyAccessToken(hdr.token, blacklist, now) /\ tok # NULL
       THEN /\ RotateLookup(p, tok, fp)
            /\ req' = [req EXCEPT ![p] = [Arrived("optionalAuth", hdr, tok) EXCEPT
                            !.pc = "rotating", !.fingerprint = fp, !.ip = ip]]
       ELSE /\ req' = [req EXCEPT ![p] =
                    IF hdr.scheme = "Bearer" /\ VerifyAccessToken(hdr.token, blacklist, now)
                    THEN Answer(Arrived("optionalAuth", hdr, tok), hdr.token.userId, "none")
                    ELSE Answer(Arrived("optionalAuth", hdr, tok), NONE, "none")]
            /\ calls' = calls + 1
            /\ UNCHANGED <<tokens, userVersion, alerts, now, proc, secVars>>

\* rotateRefreshToken has settled.  Resolved: the access token signed at the
\* end of the rotation is put on the response with the refresh token and
\* verified; authenticateJWT then starts processAuthEvent and calls next().
\* Rejected, or the new token not verified: authenticateJWT hands
\* 'Both access and refresh tokens are invalid' to next(), optionalAuth
\* calls next() without req.user.
AuthContinue(p) ==
    /\ req[p].pc = "rotating"
    /\ proc[p].pc = "done"
    /\ proc[p].alert = "none"
    /\ LET a == AccessToken(proc[p].userId, now)
           resolved == proc[p].result = "ok"
           verified == resolved /\ VerifyAccessToken(a, blacklist, now)
       IN /\ req' = [req EXCEPT ![p] = [req[p] EXCEPT
                    !.pc = "idle", !.fingerprint = NONE, !.ip = NONE,
                    !.identity = IF verified THEN a.userId ELSE NONE,
                    !.error = IF req[p].kind = "authenticateJWT" /\ ~verified
                              THEN "Unauthorized" ELSE "none",
                    !.newTokens = resolved,
                    !.rotation = proc[p].result]]
          /\ signed' = IF resolved THEN signed \cup {a} ELSE signed
          /\ obs' = IF verified /\ req[p].kind = "authenticateJWT"
                    THEN [obs EXCEPT ![p] = ObserveCall(p, a.userId, req[p].fingerprint,
                                                        req[p].ip, "token_refresh")]
                    ELSE obs
    /\ proc' = [proc EXCEPT ![p] = Idle]
    /\ UNCHANGED <<tokens, userVersion, alerts, now, calls, trusted, history, blacklist>>
    /\ UNCHANGED appVars

\* a login handler: generateTokenPair signs the access token and enters
\* generateRefreshToken
Login(p, u, fp, ip) ==
    /\ HandlerFree(p)
    /\ IssueFindUser(p, u, fp)
    /\ req' = [req EXCEPT ![p] = [NoRequest EXCEPT !.pc = "login", !.kind = "login",
                                    !.fingerprint = fp, !.ip = ip]]

\* the pair is returned, processAuthEvent is started, the response is sent
LoginRespond(p) ==
    /\ req[p].pc = "login"
    /\ proc[p].pc = "done"
    /\ signed' = signed \cup
            {AccessToken(proc[p].userId, proc[p].expiresAt - RefreshExpirySec)}
    /\ obs' = [obs EXCEPT ![p] = ObserveCall(p, proc[p].userId, req[p].fingerprint,
                                             req[p].ip, "login")]
    /\ req' = [req EXCEPT ![p] = [req[p] EXCEPT !.pc = "idle",
                    !.fingerprint = NONE, !.ip = NONE,
                    !.identity = proc[p].userId, !.newTokens = TRUE]]
    /\ proc' = [proc EXCEPT ![p] = Idle]
    /\ UNCHANGED <<tokens, userVersion, alerts, now, calls, trusted, history, blacklist>>
    /\ UNCHANGED appVars

\* logout: revokeRefreshToken when the refresh header is there, then
\* blacklistAccessToken of the second word of the authorization header
Logout(hdr, tok) ==
    /\ Delivered
    /\ calls < MaxCalls
    /\ tokens' = IF tok = NULL THEN tokens ELSE RevokeTokenIn(tokens, tok)
    /\ blacklist' = IF hdr.scheme = "none" THEN blacklist
                    ELSE blacklist \cup {[token |-> hdr.token, at |-> now]}
    /\ tokens' # tokens \/ blacklist' # blacklist
    /\ calls' = calls + 1
    /\ UNCHANGED <<userVersion, alerts, now, proc, trusted, history, obs, signed, req>>
    /\ UNCHANGED appVars

\* a storage call of processAuthEvent fails, the promise rejects
\* (first a variant in which the rejection reaches the request, then the code's)
ObserveFailsEscalating(p) ==
    /\ obs[p].pc \notin {"idle", "done"}
    /\ \A q \in Procs : obs[q].pc # "done"
    /\ obs' = [obs EXCEPT ![p] = ObserveReturn(p, "rejected")]
    /\ req' = [req EXCEPT ![p].identity = NONE, ![p].error = "StorageError"]
    /\ UNCHANGED <<tokens, userVersion, alerts, now, calls, proc, trusted, history,
                   blacklist, signed>>
    /\ UNCHANGED appVars
ObserveFails(p) ==
    /\ obs[p].pc \notin {"idle", "done"}
    /\ \A q \in Procs : obs[q].pc # "done"
    /\ obs' = [obs EXCEPT ![p] = ObserveReturn(p, "rejected")]
    /\ UNCHANGED <<tokens, userVersion, alerts, now, calls, proc, trusted, history,
                   blacklist, signed, req>>
    /\ UNCHANGED appVars

\* the headers a client can send: tokens are not forged
Headers == {NoHeader, [scheme |-> "Basic", token |-> BogusAccess]}
            \cup {Bearer(a) : a \in signed \cup {BogusAccess}}
RefreshHeaders == TokenIds \cup {BogusToken, NULL}

\* the requests that pass the authenticator are followed one at a time
AuthProcs == {"p1"}
\* and they come from one address, so that no event is new by its address
\* alone; no fingerprint is trusted
AuthIps == {"::ffff:10.0.0.1"}

NextAuth ==
    \/ \E p \in AuthProcs, u \in Users, fp \in Fingerprints, ip \in AuthIps : Login(p, u, fp, ip)
    \/ \E p \in AuthProcs : GenCreate(p)
    \/ \E p \in AuthProcs : LoginRespond(p)
    \/ \E p \in AuthProcs, hdr \in Headers, tok \in RefreshHeaders,
          fp \in Fingerprints, ip \in AuthIps : AuthenticateJWT(p, hdr, tok, fp, ip)
    \/ \E p \in AuthProcs, hdr \in Headers, tok \in RefreshHeaders,
          fp \in Fingerprints, ip \in AuthIps : OptionalAuth(p, hdr, tok, fp, ip)
    \/ \E p \in AuthProcs : RotateGraceLookup(p)
    \/ \E p \in AuthProcs : RotateRevokeFamily(p)
    \/ \E p \in AuthProcs : AlertWritten(p)
    \/ \E p \in AuthProcs : AlertLost(p)
    \/ \E p \in AuthProcs : RotateGenFindUser(p)
    \/ \E p \in AuthProcs : RotateMarkRotated(p)
    \/ \E p \in AuthProcs : AuthContinue(p)
    \/ \E hdr \in Headers, tok \in RefreshHeaders : Logout(hdr, tok)
    \/ \E p \in AuthProcs : ObserveFindTrusted(p)
    \/ \E p \in AuthProcs : ObserveFindDevice(p)
    \/ \E p \in AuthProcs : ObserveFindIp(p)
    \/ \E p \in AuthProcs : ObserveRecordFind(p)
    \/ \E p \in AuthProcs : ObserveRecordCreate(p)
    \/ \E p \in AuthProcs : ObserveAlertDevice(p)
    \/ \E p \in AuthProcs : ObserveFails(p)
    \/ \E p \in AuthProcs : ObserveSettled(p)
    \/ \E t \in Times : Tick(t)

SpecAuth == Init /\ [][NextAuth]_vars

\* ---------------------------------------------- authenticator (C13, C15-C17)

\* the request of p is answered with this step
Answered(p) == req'[p] # req[p] /\ req'[p].pc = "idle"

\* the errors of rotateRefreshToken
Taxonomy == {"InvalidCredential", "ExpiredCredential", "SessionInvalidated",
             "TokenReuseDetected", "DeviceMismatch"}

\* C13: when the rotation entered by authenticateJWT has failed, the error
\* the request is answered with is the error of the rotation.
C13_RotationErrorPropagates ==
    [][\A p \in Procs :
        (/\ Answered(p) /\ req[p].pc = "rotating"
         /\ req[p].kind = "authenticateJWT" /\ proc[p].result # "ok")
        => req'[p].error = proc[p].result]_vars

\* the write of an alert is lost with this step; a storage call of the
\* processAuthEvent call of p (a query, the login event, an alert) fails
AlertWriteFails(p) ==
    proc[p].alert # "none" /\ proc'[p].alert = "none" /\ alerts' = alerts
ObserveCallFails(p) ==
    obs[p].result # "rejected" /\ obs'[p].result = "rejected"

\* C15: a step in which an alert write is lost or a storage call of
\* processAuthEvent fails changes neither a request's outcome (identity,
\* error, tokens on the response) nor the result of a rotation nor the
\* refresh tokens; a request that has started processAuthEvent after its
\* rotation has identity attached and no error; and a rotation ends as ok
\* or with an error of its own taxonomy.
C15_FailuresNeverEscalate ==
    [][\A p \in Procs :
        /\ (AlertWriteFails(p) \/ ObserveCallFails(p)) =>
                /\ req' = req
                /\ \A q \in Procs : proc'[q].result = proc[q].result
                                     /\ proc'[q].pc = proc[q].pc
                /\ tokens' = tokens
        /\ (req[p].pc = "rotating" /\ obs'[p].pc = "findTrusted") =>
                /\ req'[p].identity = proc[p].userId
                /\ req'[p].error = "none"
                /\ req'[p].newTokens
        /\ proc'[p].pc = "done" => proc'[p].result \in Taxonomy \cup {"ok"}]_vars

\* the processAuthEvent call started by a silent refresh has failed when it
\* was to write its login event; the request it belongs to has gone on with
\* the identity of the rotated token's owner
C15_Witness ==
    \E p \in Procs :
        /\ obs[p].pc = "done" /\ obs[p].result = "rejected"
        /\ obs[p].eventType = "token_refresh"
        /\ obs[p].actualEventType # "none" /\ obs[p].logged = <<>>
        /\ req[p].kind = "authenticateJWT" /\ req[p].rotation = "ok"
        /\ req[p].identity = obs[p].userId /\ req[p].error = "none"

\* C16: authenticateJWT answers a request whose bearer token does not verify
\* (not signed, expired or deny-listed) and that has no refresh header with
\* AuthRequired and without identity, in the step in which it arrived, and
\* that step changes no table, no call in flight and no deny-list.
C16_NoRefreshIsAuthRequired ==
    [][\A p \in Procs :
        (/\ req'[p] # req[p] /\ req[p].pc = "idle"
         /\ req'[p].kind = "authenticateJWT"
         /\ req'[p].access \in {"invalid", "expired", "denied"}
         /\ ~req'[p].refreshGiven)
        => /\ req'[p].pc = "idle"
           /\ req'[p].error = "AuthRequired"
           /\ req'[p].identity = NONE
           /\ ~req'[p].newTokens
           /\ <<tokens', userVersion', trusted', alerts', history'>>
                = <<tokens, userVersion, trusted, alerts, history>>
           /\ <<proc', obs', blacklist', signed'>> = <<proc, obs, blacklist, signed>>]_vars

\* a request with an expired access token and no refresh header has been
\* answered with AuthRequired while the user's refresh token is still good
C16_Witness ==
    \E p \in Procs :
        /\ req[p].pc = "idle" /\ req[p].kind = "authenticateJWT"
        /\ req[p].access = "expired" /\ ~req[p].refreshGiven
        /\ req[p].error = "AuthRequired" /\ req[p].identity = NONE
        /\ \E i \in TokenIds : ~tokens[i].isRevoked /\ now < tokens[i].expiresAt

\* C17: optionalAuth answers every request without error, and with identity
\* exactly when the access token verified or the rotation resolved.
C17_OptionalIdentityIffVerifiedOrRotated ==
    [][\A p \in Procs :
        (Answered(p) /\ req'[p].kind = "optionalAuth") =>
            /\ req'[p].error = "none"
            /\ req'[p].identity # NONE
                <=> (req'[p].access = "valid" \/ req'[p].rotation = "ok")]_vars

\* ------------------------------------------------ security events (C18-C20)

\* the call of p returns with this step
ObserveReturns(p) == obs[p].pc \notin {"idle", "done"} /\ obs'[p].pc = "done"

\* the login_history row a call has written, if it has written one
OwnEvents(o) ==
    IF o.logged = <<>> THEN EmptyBag
    ELSE SetToBag({[userId |-> o.userId, ipAddress |-> o.ip,
                    deviceFingerprint |-> o.fingerprint,
                    isTrustedDevice |-> o.isTrustedDevice,
                    eventType |-> o.actualEventType]})

\* login_history holds no event of the call's user and fingerprint (address)
\* but the call's own: whatever "prior" means, there was none before the call
NoOtherDeviceEvent(h, o) ==
    \A r \in BagToSet(h (-) OwnEvents(o)) :
        r.userId # o.userId \/ r.deviceFingerprint # o.fingerprint
NoOtherIpEvent(h, o) ==
    \A r \in BagToSet(h (-) OwnEvents(o)) :
        r.userId # o.userId \/ r.ipAddress # o.ip

\* C18 as claimed: a call for a fingerprint that has no other login event of
\* the user has raised exactly one new_device alert when it returns, a call
\* that found an event for the fingerprint and whose address has no other
\* event has raised exactly one new_location alert, and no call raises both.
C18_UnseenAlwaysAlerts ==
    [][\A p \in Procs :
        (ObserveReturns(p) /\ obs'[p].result # "rejected") =>
            /\ NoOtherDeviceEvent(history', obs'[p]) => obs'[p].raised = <<"new_device">>
            /\ (~obs'[p].isNewDevice /\ obs'[p].trustedId = NULL
                    /\ NoOtherIpEvent(history', obs'[p]))
                    => obs'[p].raised = <<"new_location">>
            /\ Len(obs'[p].raised) <= 1]_vars

\* C18, amended: the same for the calls that found no trust entry for the
\* fingerprint; a call never raises more than one alert, and a call that
\* found a trust entry raises none.
C18_UntrustedUnseenAlerts ==
    [][\A p \in Procs :
        ObserveReturns(p) =>
            /\ obs'[p].result = "untrusted" =>
                /\ NoOtherDeviceEvent(history', obs'[p]) => obs'[p].isNewDevice
                /\ obs'[p].isNewDevice => obs'[p].raised = <<"new_device">>
                /\ NoOtherIpEvent(history', obs'[p]) => obs'[p].isNewIp
                /\ (~obs'[p].isNewDevice /\ obs'[p].isNewIp)
                        => obs'[p].raised = <<"new_location">>
            /\ obs'[p].trustedId # NULL => obs'[p].raised = <<>>
            /\ Len(obs'[p].raised) <= 1
            /\ alerts' = alerts \/ \E a \in BagToSet(alerts') :
                    /\ alerts' = alerts (+) SetToBag({a})
                    /\ obs'[p].raised = <<a.alertType>>]_vars

\* a call has returned after raising new_location: it found an event for
\* its fingerprint and none for its address
C18_Witness ==
    \E p \in Procs :
        /\ obs[p].pc = "done" /\ obs[p].result = "untrusted"
        /\ obs[p].raised = <<"new_location">>
        /\ BagIn(ObserveAlert(obs[p].userId, "new_location"), alerts)
        /\ ~obs[p].isNewDevice /\ obs[p].isNewIp

\* C19: a call that found no trust entry has, when it returns, written
\* exactly one login event and raised exactly one alert: new_device when it
\* found no event for the fingerprint, new_location otherwise.
C19_UntrustedAlwaysOneAlert ==
    [][\A p \in Procs :
        (ObserveReturns(p) /\ obs'[p].result = "untrusted") =>
            /\ Len(obs'[p].logged) = 1
            /\ obs'[p].raised =
                    IF obs'[p].isNewDevice THEN <<"new_device">> ELSE <<"new_location">>]_vars

\* C20: a call that found a trust entry and touched it changes nothing but
\* that row's lastUsedAt and lastIpAddress and, for a login, login_history,
\* which gains one event of type login; it raises no alert and returns
\* isNewDevice false.
TouchedOnly(p) ==
    /\ Len(trusted') = Len(trusted)
    /\ \A i \in 1..Len(trusted) :
        IF i = obs[p].trustedId /\ obs[p].pc = "touch"
        THEN trusted'[i] = [trusted[i] EXCEPT !.lastUsedAt = now,
                                              !.lastIpAddress = obs[p].ip]
        ELSE trusted'[i] = trusted[i]

C20_TrustedOnlyTouches ==
    [][\A p \in Procs :
        (/\ obs[p].trustedId # NULL /\ obs'[p] # obs[p]
         /\ obs'[p].pc # "idle" /\ obs'[p].result # "rejected") =>
            /\ TouchedOnly(p)
            /\ alerts' = alerts
            /\ <<tokens', userVersion', blacklist'>> = <<tokens, userVersion, blacklist>>
            /\ IF obs[p].pc = "recordCreate"
               THEN /\ obs[p].eventType = "login"
                    /\ \E r \in BagToSet(history') :
                        /\ history' = history (+) SetToBag({r})
                        /\ r.eventType = "login"
                        /\ r.userId = obs[p].userId
                        /\ r.deviceFingerprint = obs[p].fingerprint
               ELSE history' = history
            /\ obs'[p].pc = "done" =>
                /\ obs'[p].result = "trusted"
                /\ ~obs'[p].isNewDevice
                /\ obs'[p].raised = <<>>
                /\ obs'[p].logged = IF obs[p].eventType = "login" THEN <<"login">> ELSE <<>>]_vars

\* a login from a trusted fingerprint has returned: the entry carries the
\* time and the address of the call, the event is recorded as trusted
C20_Witness ==
    \E p \in Procs :
        /\ obs[p].pc = "done" /\ obs[p].result = "trusted"
        /\ obs[p].eventType = "login" /\ obs[p].logged = <<"login">>
        /\ now > 0
        /\ trusted[obs[p].trustedId].lastUsedAt = now
        /\ trusted[obs[p].trustedId].lastIpAddress = obs[p].ip
        /\ BagIn([userId |-> obs[p].userId, ipAddress |-> obs[p].ip,
                  deviceFingerprint |-> obs[p].fingerprint,
                  isTrustedDevice |-> TRUE, eventType |-> "login"], history)

\* ------------------------------------------------ observe is called (C21)

\* the rotation entered by the request of p has resolved and the request is
\* answered with this step
RotationAnswered(p) ==
    Answered(p) /\ req[p].pc = "rotating" /\ req'[p].rotation = "ok"

\* processAuthEvent is started for u with this step by the request of p
ObserveStarted(p, u, kind) ==
    /\ obs[p].pc = "idle" /\ obs'[p].pc = "findTrusted"
    /\ obs'[p].userId = u /\ obs'[p].eventType = kind

\* C21: the step that answers a login starts processAuthEvent for the user
\* who logged in with event type login, and the step that answers a request
\* whose rotation resolved, under authenticateJWT and under optionalAuth,
\* starts processAuthEvent for the owner of the rotated token with event
\* type token_refresh.
C21_RotationAlwaysObserved ==
    [][\A p \in Procs :
        /\ (Answered(p) /\ req[p].pc = "login")
                => ObserveStarted(p, proc[p].userId, "login")
        /\ RotationAnswered(p)
                => ObserveStarted(p, proc[p].userId, "token_refresh")]_vars

\* ------------------------------------------------ trusted devices (C22, C23)

\* isDeviceTrusted: trustedDevice.findUnique({ userId, deviceFingerprint }), !!device
\* (first a variant that looks the fingerprint up for any user, then the code's)
IsDeviceTrustedAnyUser(tr, u, fp) ==
    \E i \in 1..Len(tr) : ~tr[i].deleted /\ tr[i].deviceFingerprint = fp
IsDeviceTrusted(tr, u, fp) ==
    \E i \in 1..Len(tr) :
        ~tr[i].deleted /\ tr[i].userId = u /\ tr[i].deviceFingerprint = fp

\* C22: in the state an addTrustedDevice(u, fp) step leaves, isDeviceTrusted
\* (u, fp) is true, and for every other pair of user and fingerprint it
\* answers what it answered before the step: no other fingerprint of u and
\* no fingerprint of another user has become trusted.
C22_TrustedAfterUpsertOnlyThatPair ==
    [][\A u \in Users, fp \in Fingerprints, ip \in RawIps :
        AddTrustedDevice(u, fp, ip) =>
            /\ IsDeviceTrusted(trusted', u, fp)
            /\ \A v \in Users, g \in Fingerprints :
                <<v, g>> # <<u, fp>> =>
                    (IsDeviceTrusted(trusted', v, g) <=> IsDeviceTrusted(trusted, v, g))]_vars

\* u1 has trusted f1 and then f2 was trusted by u2 only: each is trusted for
\* the user who added it and for nobody else
C22_Witness ==
    /\ Len(trusted) = 2
    /\ IsDeviceTrusted(trusted, "u1", "f1") /\ ~IsDeviceTrusted(trusted, "u2", "f1")
    /\ IsDeviceTrusted(trusted, "u2", "f2") /\ ~IsDeviceTrusted(trusted, "u1", "f2")

\* trusted_devices_user_id_device_fingerprint_key: no two rows of a user
\* carry the same fingerprint
UniqueTrust(tr) ==
    \A i, j \in 1..Len(tr) :
        (/\ ~tr[i].deleted /\ ~tr[j].deleted
         /\ tr[i].userId = tr[j].userId
         /\ tr[i].deviceFingerprint = tr[j].deviceFingerprint) => i = j

\* C23: trusted_devices never holds two rows for one user and fingerprint,
\* and an addTrustedDevice step for a pair that has a row adds no row and
\* changes of that row only lastIpAddress and lastUsedAt, and no other row.
C23_OneEntryPerOwnerAndFingerprint ==
    [][/\ UniqueTrust(trusted')
       /\ \A u \in Users, fp \in Fingerprints, ip \in RawIps :
            (AddTrustedDevice(u, fp, ip) /\ IsDeviceTrusted(trusted, u, fp)) =>
                /\ Len(trusted') = Len(trusted)
                /\ \A i \in 1..Len(trusted) :
                    IF /\ ~trusted[i].deleted /\ trusted[i].userId = u
                       /\ trusted[i].deviceFingerprint = fp
                    THEN trusted'[i] = [trusted[i] EXCEPT
                                            !.lastIpAddress = NormalizeIp(ip),
                                            !.lastUsedAt = now]
                    ELSE trusted'[i] = trusted[i]]_vars

\* a fingerprint was trusted twice by its user, the second time later and
\* from another address: one row, with the later time and address
C23_Witness ==
    /\ Len(trusted) = 1 /\ ~trusted[1].deleted
    /\ calls = 2 /\ now = 10
    /\ trusted[1].lastUsedAt = 10
    /\ trusted[1].lastIpAddress = "10.0.0.2"
    /\ \A p \in Procs : obs[p].pc = "idle"
    /\ history = EmptyBag

\* ------------------------------------------------ revocation frame (C24)

\* with this step the row tok, and no other, has its revoked flag set and
\* nothing else of any row changes; no token version changes
SingleFlagged(tok) ==
    /\ Len(tokens') = Len(tokens)
    /\ \A i \in TokenIds :
        tokens'[i] = IF i = tok THEN [tokens[i] EXCEPT !.isRevoked = TRUE] ELSE tokens[i]
    /\ userVersion' = userVersion

\* with this step the rows of family fam, and no others, have their revoked
\* flag set and nothing else of any row changes; no token version changes
FamilyFlagged(fam) ==
    /\ Len(tokens') = Len(tokens)
    /\ \A i \in TokenIds :
        tokens'[i] = IF tokens[i].familyId = fam
                     THEN [tokens[i] EXCEPT !.isRevoked = TRUE] ELSE tokens[i]
    /\ userVersion' = userVersion

\* C24: a revokeRefreshToken step (logout, step 3 of a rotation) flags the
\* row of its token and changes no other row; a revokeTokenFamily step (the
\* theft response of a rotation, revokeDevice) flags every row of its family
\* and changes no row of another family and no user's token version.
C24_RevocationFrames ==
    [][tokens' # tokens =>
        /\ \A tok \in TokenIds : RevokeRefreshToken(tok) => SingleFlagged(tok)
        /\ \A p \in Procs : RotateRevokeSelf(p) => SingleFlagged(proc[p].token)
        /\ \A p \in Procs : RotateRevokeFamily(p) => FamilyFlagged(proc[p].familyId)
        /\ \A u \in Users, id \in TokenIds :
            RevokeDevice(u, id) => FamilyFlagged(tokens[id].familyId)]_vars

\* a user has two families and a row of one of them was revoked: the row of
\* the other family is not revoked and the user's token version is as it was
C24_Witness ==
    /\ Len(tokens) = 2 /\ calls = 3
    /\ tokens[1].familyId # tokens[2].familyId
    /\ tokens[1].userId = tokens[2].userId
    /\ tokens[1].isRevoked /\ ~tokens[2].isRevoked
    /\ userVersion[tokens[1].userId] = 1
    /\ Quiescent

\* ------------------------------------------- account administration (C25)

\* markAlertsAsRead: securityAlert.updateMany({ id in alertIds, userId },
\* { isRead: true }); an id is given by the row it names
MarkAlertsAsRead(u, rows) ==
    /\ Delivered
    /\ calls < MaxCalls
    /\ rows # {}
    /\ LET own == {r \in rows : r.userId = u}
           read == {[r EXCEPT !.isRead = TRUE] : r \in own}
       IN alerts' = (alerts (-) SetToBag(own))
                        (+) [x \in read |-> Cardinality({r \in own :
                                                [r EXCEPT !.isRead = TRUE] = x})]
    /\ calls' = calls + 1
    /\ UNCHANGED <<tokens, userVersion, now, proc, secVars, req>>

\* dismissAlert: securityAlert.updateMany({ id, userId }, { isDismissed: true })
DismissAlert(u, row) ==
    /\ Delivered
    /\ calls < MaxCalls
    /\ alerts' = IF row.userId = u
                 THEN (alerts (-) SetToBag({row}))
                        (+) SetToBag({[row EXCEPT !.isDismissed = TRUE]})
                 ELSE alerts
    /\ calls' = calls + 1
    /\ UNCHANGED <<tokens, userVersion, now, proc, secVars, req>>

\* The administration requests of the users, with the ids of their own and
\* of other users' rows, next to the logins and refreshes that make the
\* rows.
NextAdmin ==
    \/ \E p \in Procs, u \in Users, fp \in Fingerprints : GenerateTokenPair(p, u, fp)
    \/ \E p \in Procs : GenCreate(p)
    \/ \E p \in Procs, tok \in TokenIds, fp \in Fingerprints :
            RefreshAccessToken(p, tok, fp)
    \/ \E p \in Procs : RotateGraceLookup(p)
    \/ \E p \in Procs : RotateRevokeFamily(p)
    \/ \E p \in Procs : AlertWritten(p)
    \/ \E p \in Procs : AlertLost(p)
    \/ \E p \in Procs : RotateGenFindUser(p)
    \/ \E p \in Procs : RotateMarkRotated(p)
    \/ \E p \in Procs : Done(p)
    \/ \E u \in Users, fp \in Fingerprints, ip \in AuthIps : TrustDevice(u, fp, ip)
    \/ \E u \in Users, id \in TokenIds : RevokeDevice(u, id)
    \/ \E u \in Users, id \in 1..Len(trusted) : RemoveTrustedDevice(u, id)
    \/ \E u \in Users, rows \in SUBSET BagToSet(alerts) : MarkAlertsAsRead(u, rows)
    \/ \E u \in Users, row \in BagToSet(alerts) : DismissAlert(u, row)

SpecAdmin == Init /\ [][NextAdmin]_vars

\* the rows of the users other than u are, after this step, what they were
OthersUnchanged(u) ==
    /\ Len(tokens') = Len(tokens)
    /\ \A i \in TokenIds : tokens[i].userId # u => tokens'[i] = tokens[i]
    /\ Len(trusted') = Len(trusted)
    /\ \A i \in 1..Len(trusted) : trusted[i].userId # u => trusted'[i] = trusted[i]
    /\ \A r \in BagToSet(alerts) \cup BagToSet(alerts') :
        r.userId # u => CopiesIn(r, alerts') = CopiesIn(r, alerts)
    /\ \A v \in Users : v # u => userVersion'[v] = userVersion[v]

\* C25: a revokeDevice, removeTrustedDevice, markAlertsAsRead or dismissAlert
\* step of user u, whatever id it is given, leaves every refresh token,
\* trusted device and security alert of every other user as it was.
C25_AdminOpsOwnerScoped ==
    [][\A u \in Users :
        /\ \A id \in TokenIds : RevokeDevice(u, id) => OthersUnchanged(u)
        /\ \A id \in 1..Len(trusted) : RemoveTrustedDevice(u, id) => OthersUnchanged(u)
        /\ \A rows \in SUBSET BagToSet(alerts) :
                MarkAlertsAsRead(u, rows) => OthersUnchanged(u)
        /\ \A row \in BagToSet(alerts) : DismissAlert(u, row) => OthersUnchanged(u)]_vars

\* u1 and u2 have logged in and a third request, which can only have been
\* a revokeDevice of one of them with the id of the other's row, has left
\* both rows unrevoked
C25_Witness ==
    /\ calls = 3 /\ Quiescent
    /\ Len(tokens) = 2
    /\ tokens[1].userId # tokens[2].userId
    /\ ~tokens[1].isRevoked /\ ~tokens[2].isRevoked
    /\ trusted = <<>> /\ alerts = EmptyBag

\* ------------------------------------------------------ deny-list (C26)

\* the values JWT_ACCESS_EXPIRY is followed with: the default '5m', and '15m'
AccessLifetimes == {AccessExpirySec, 3 * AccessExpirySec}

\* the times the deny-list is looked at: when a token is signed, shortly
\* after, when the timer of a call made then runs, and later
DenyTimes == {0, 10, DenyListTtlSec, DenyListTtlSec + 10, 3 * AccessExpirySec}

\* generateAccessToken under the configured lifetime: the service is
\* constructed once, every token is signed with the same expiresIn
GenerateAccessToken(u, life) ==
    /\ calls < MaxCalls
    /\ \A a \in signed : a.exp - a.iat = life
    /\ SignAccess(u, now, life) \notin signed
    /\ signed' = signed \cup {SignAccess(u, now, life)}
    /\ calls' = calls + 1
    /\ UNCHANGED <<tokens, userVersion, alerts, now, proc, trusted, history, obs,
                   blacklist, req>>
    /\ UNCHANGED appVars

\* Access tokens are signed, handed to logout (blacklistAccessToken) and
\* presented to authenticateJWT without a refresh token, while time passes.
NextDeny ==
    \/ \E u \in Users, life \in AccessLifetimes : GenerateAccessToken(u, life)
    \/ \E hdr \in Headers : Logout(hdr, NULL)
    \/ \E p \in AuthProcs, hdr \in Headers, fp \in Fingerprints, ip \in AuthIps :
            AuthenticateJWT(p, hdr, NULL, fp, ip)
    \/ \E t \in DenyTimes : Tick(t)

SpecDeny == Init /\ [][NextDeny]_vars

\* C26: a token that was handed to blacklistAccessToken does not verify at
\* any time after the call, whatever lifetime it was signed with.
C26_DenyListedNeverVerifies ==
    \A e \in blacklist : ~VerifyAccessToken(e.token, blacklist, now)

\* ------------------------------------------------ order of the checks (C27)

\* the step in which p starts a rotation of a string that jwt.verify rejects
RotateStartsUnsigned(p) ==
    /\ proc[p].pc = "idle" /\ proc'[p].pc # "idle"
    /\ proc'[p].op = "rotate"
    /\ proc'[p].token \notin TokenIds

\* what holds of the row a rotation presents when it is looked up: its life
\* has ended, its version is below its owner's, it was revoked or rotated,
\* its fingerprint is not the request's
IsExpired(rec) == now >= rec.expiresAt
IsOutdated(rec) == rec.tokenVersion < userVersion[rec.userId]
IsReused(rec) == rec.isRevoked \/ rec.replacedByToken # NULL
IsMismatched(rec, fp) ==
    rec.deviceFingerprint # NONE /\ fp # NONE /\ rec.deviceFingerprint # fp

\* C27: the lookup of a rotation writes nothing and decides by the first of
\* signature, expiry, token version, reuse, fingerprint that fails: a string
\* not signed ends as InvalidCredential and an expired token as
\* ExpiredCredential with nothing written; an unexpired outdated token goes to
\* step 3 whether or not it was revoked, rotated or comes from another
\* fingerprint, and step 3 ends as SessionInvalidated having flagged that one
\* row, with no alert; a revoked or rotated token that is neither expired nor
\* outdated gets the grace path or the reuse response, never the mismatch
\* response; the mismatch response is for the tokens nothing else is wrong with.
C27_ChecksInOrder ==
    [][\A p \in Procs :
        /\ RotateStartsUnsigned(p) =>
            /\ Ends(p, "InvalidCredential")
            /\ StorageUnchanged /\ proc'[p].alert = "none"
        /\ RotateStarts(p) =>
            /\ StorageUnchanged /\ proc'[p].alert = "none"
            /\ IsExpired(Presented(p)) => Ends(p, "ExpiredCredential")
            /\ (~IsExpired(Presented(p)) /\ IsOutdated(Presented(p)))
                    => proc'[p].pc = "revokeSelf"
            /\ (~IsExpired(Presented(p)) /\ ~IsOutdated(Presented(p))
                    /\ IsReused(Presented(p)))
                    => \/ proc'[p].pc = "graceLookup"
                       \/ proc'[p].pc = "revokeFamily" /\ proc'[p].reason = "token_reuse"
            /\ (~IsExpired(Presented(p)) /\ ~IsOutdated(Presented(p))
                    /\ ~IsReused(Presented(p))
                    /\ IsMismatched(Presented(p), proc'[p].reqFp))
                    => proc'[p].pc = "revokeFamily" /\ proc'[p].reason = "device_mismatch"
        /\ Leaves(p, "revokeSelf") =>
            /\ Ends(p, "SessionInvalidated")
            /\ SingleFlagged(proc[p].token)
            /\ alerts' = alerts /\ proc'[p].alert = "none"]_vars

\* a call has just failed with SessionInvalidated on an outdated token that
\* was also presented from another fingerprint: no alert was raised
C27_Witness ==
    \E p \in Procs :
        /\ proc[p].pc = "done" /\ proc[p].result = "SessionInvalidated"
        /\ IsMismatched(tokens[proc[p].token], proc[p].reqFp)
        /\ tokens[proc[p].token].isRevoked
        /\ alerts = EmptyBag /\ proc[p].alert = "none"

\* ------------------------------------------- the rotated pair (C28)

\* the call of p has just returned from the happy path of a rotation
Rotated(p) == proc[p].pc = "done" /\ proc[p].result = "ok" /\ proc[p].path = "rotated"

RevokedUnrotated(rec) == rec.isRevoked /\ rec.rotatedAt = NULL

\* the alert write of p, started when the call failed, settles with this step
AlertSettles(p) == proc[p].alert # "none" /\ proc'[p].alert = "none"

InitRotated ==
    /\ tokens = << MarkRotated(NewRecord("u1", 1, 1, "f1", RefreshExpirySec), 2, 0),
                   NewRecord("u1", 1, 1, "f1", RefreshExpirySec) >>
    /\ userVersion = [u \in Users |-> 1]
    /\ alerts = EmptyBag
    /\ now = 0
    /\ calls = 0
    /\ proc = [p \in Procs |-> Idle]
    /\ trusted = <<>>
    /\ history = EmptyBag
    /\ obs = [p \in Procs |-> NoObserve]
    /\ blacklist = {}
    /\ signed = {}
    /\ req = [p \in Procs |-> NoRequest]
    /\ InitApp

\* the requests followed from there: refreshes, logouts of single tokens
\* and revocations of all sessions, while time passes
NextGrace ==
    \/ \E p \in Procs, tok \in TokenIds, fp \in Fingerprints : RefreshAccessToken(p, tok, fp)
    \/ \E p \in Procs : RotateRevokeSelf(p)
    \/ \E p \in Procs : RotateGraceLookup(p)
    \/ \E p \in Procs : RotateRevokeFamily(p)
    \/ \E p \in Procs : AlertWritten(p)
    \/ \E p \in Procs : AlertLost(p)
    \/ \E p \in Procs : RotateGenFindUser(p)
    \/ \E p \in Procs : GenCreate(p)
    \/ \E p \in Procs : RotateMarkRotated(p)
    \/ \E p \in Procs : IncrementVersion(p, "u1")
    \/ \E p \in Procs : IncrementRevokeAll(p)
    \/ \E tok \in TokenIds : RevokeRefreshToken(tok)
    \/ \E p \in Procs : Done(p)
    \/ \E t \in Times : Tick(t)

SpecGrace == InitRotated /\ [][NextGrace]_vars

\* the row was rotated less than the grace window ago
InWindow(rec) ==
    /\ rec.rotatedAt # NULL /\ rec.replacedByToken # NULL
    /\ (now - rec.rotatedAt) * 1000 < ROTATION_GRACE_MS

\* C30 as claimed: a rotation takes the grace path only for a row rotated
\* less than ten seconds ago whose replacement is there, not revoked and not
\* expired, and a rotation of a row rotated less than ten seconds ago whose
\* replacement is revoked or expired goes to the theft response, which fails
\* with TokenReuseDetected and leaves the family revoked.
C30_WindowWithoutSuccessorAlwaysTheft ==
    [][\A p \in Procs :
        /\ (proc'[p].path = "grace" /\ proc[p].path # "grace")
                => (/\ proc[p].pc = "graceLookup"
                    /\ SuccessorUsable(proc[p].replacedByToken))
        /\ (RotateStarts(p) /\ proc'[p].pc = "graceLookup") => InWindow(Presented(p))
        /\ (/\ RotateStarts(p) /\ InWindow(Presented(p))
            /\ ~SuccessorUsable(Presented(p).replacedByToken))
                => proc'[p].pc = "graceLookup"
        /\ (Leaves(p, "graceLookup") /\ ~SuccessorUsable(proc[p].replacedByToken))
                => (proc'[p].pc = "revokeFamily" /\ proc'[p].reason = "token_reuse")
        /\ (Leaves(p, "revokeFamily") /\ proc[p].reason = "token_reuse")
                => (Ends(p, "TokenReuseDetected")
                    /\ FamilyRevoked(tokens', proc[p].familyId))]_vars

\* C30, amended: the same, the second half for a row that is not expired
\* and whose version is not below its owner's (the earlier checks answer for
\* the others), the replacement being what the call's second read finds.
C30_GraceOnlyWithUsableSuccessor ==
    [][\A p \in Procs :
        /\ (proc'[p].path = "grace" /\ proc[p].path # "grace")
                => (/\ proc[p].pc = "graceLookup"
                    /\ SuccessorUsable(proc[p].replacedByToken)
                    /\ Ends(p, "ok")
                    /\ proc'[p].refreshToken = proc[p].replacedByToken)
        /\ (RotateStarts(p) /\ proc'[p].pc = "graceLookup") => InWindow(Presented(p))
        /\ (/\ RotateStarts(p) /\ InWindow(Presented(p))
            /\ now < Presented(p).expiresAt
            /\ Presented(p).tokenVersion >= userVersion[Presented(p).userId])
                => (proc'[p].pc = "graceLookup" /\ StorageUnchanged)
        /\ (Leaves(p, "graceLookup") /\ ~SuccessorUsable(proc[p].replacedByToken))
                => (/\ proc'[p].pc = "revokeFamily" /\ proc'[p].reason = "token_reuse"
                    /\ StorageUnchanged)
        /\ (Leaves(p, "revokeFamily") /\ proc[p].reason = "token_reuse")
                => (Ends(p, "TokenReuseDetected")
                    /\ FamilyRevoked(tokens', proc[p].familyId))]_vars

\* a rotated token was presented within the window after its replacement
\* had been revoked: the call has found no usable replacement and is about
\* to revoke the family
C30_Witness ==
    \E p \in Procs :
        /\ proc[p].pc = "revokeFamily" /\ proc[p].reason = "token_reuse"
        /\ InWindow(tokens[proc[p].token])
        /\ ~tokens[proc[p].token].isRevoked
        /\ tokens[proc[p].replacedByToken].isRevoked
        /\ now < tokens[proc[p].replacedByToken].expiresAt

\* ------------------------------------------- valid access credential (C31)

\* the request of p arrives with this step
Arrives(p, kind) == req'[p] # req[p] /\ req[p].pc = "idle" /\ req'[p].kind = kind

\* everything stored, every call in flight, the deny-list and the tokens
\* handed out
NothingStoredChanges ==
    /\ <<tokens', userVersion', trusted', alerts', history'>>
         = <<tokens, userVersion, trusted, alerts, history>>
    /\ <<proc', obs', blacklist', signed'>> = <<proc, obs, blacklist, signed>>

\* C31: authenticateJWT answers a request whose bearer token is signed, not
\* deny-listed and not expired in the step in which it arrived, with the
\* identity of that token and without error, whatever the refresh header
\* holds: no rotation is entered, no new tokens are put on the response, and
\* no table, no call in flight and no deny-list changes.
C31_ValidAccessNeverRotates ==
    [][\A p \in Procs :
        (Arrives(p, "authenticateJWT") /\ req'[p].access = "valid") =>
            \A hdr \in Headers, tok \in RefreshHeaders, fp \in Fingerprints, ip \in AuthIps :
                AuthenticateJWT(p, hdr, tok, fp, ip) =>
                    /\ req'[p].pc = "idle"
                    /\ req'[p].identity = hdr.token.userId
                    /\ req'[p].identity # NONE
                    /\ req'[p].error = "none"
                    /\ ~req'[p].newTokens
                    /\ req'[p].rotation = "none"
                    /\ NothingStoredChanges]_vars

\* a request with a valid access token and a refresh header has been answered
\* with identity and without rotation while every refresh token is revoked
C31_Witness ==
    \E p \in Procs :
        /\ req[p].pc = "idle" /\ req[p].kind = "authenticateJWT"
        /\ req[p].access = "valid" /\ req[p].refreshGiven
        /\ req[p].identity # NONE /\ req[p].error = "none" /\ req[p].rotation = "none"
        /\ tokens # <<>>
        /\ \A i \in TokenIds : tokens[i].isRevoked

\* --------------------------------------------- no silent promotion (C32)

\* the trusted pairs of user and fingerprint
TrustedPairs(tr) ==
    {<<tr[i].userId, tr[i].deviceFingerprint>> : i \in {j \in 1..Len(tr) : ~tr[j].deleted}}

\* the step is a storage call of a processAuthEvent call, or starts or
\* settles one
ObserveStep == obs' # obs

\* C32: a step of processAuthEvent creates no row of trusted_devices and
\* deletes none, so the set of trusted pairs of user and fingerprint is the
\* same after it; a step that changes that set is a step of addTrustedDevice
\* or of removeTrustedDevice.
C32_ObserveNeverChangesTrust ==
    [][/\ ObserveStep =>
            /\ Len(trusted') = Len(trusted)
            /\ \A i \in 1..Len(trusted) : trusted'[i].deleted = trusted[i].deleted
            /\ TrustedPairs(trusted') = TrustedPairs(trusted)
       /\ TrustedPairs(trusted') # TrustedPairs(trusted) =>
            \/ \E u \in Users, fp \in Fingerprints, ip \in RawIps : AddTrustedDevice(u, fp, ip)
            \/ \E u \in Users, id \in 1..Len(trusted) : RemoveTrustedDevice(u, id)]_vars

\* a login and a silent refresh of u1 from f1 have both been recorded and
\* the device is still not trusted
C32_Witness ==
    /\ \A p \in Procs : obs[p].pc = "idle"
    /\ BagCardinality(history) = 2
    /\ \A r \in BagToSet(history) : r.userId = "u1" /\ r.deviceFingerprint = "f1"
    /\ \E r \in BagToSet(history) : r.eventType = "token_refresh"
    /\ TrustedPairs(trusted) = {}

\* ------------------------------------------ sessions after a bump (C33)

\* no incrementUserTokenVersion call for u has bumped the version and still
\* has its revokeAllUserTokens ahead
BumpsCompleted(u) ==
    \A p \in Procs :
        ~(proc[p].op = "incrementVersion" /\ proc[p].userId = u /\ proc[p].pc = "revokeAll")

\* rotateRefreshToken would take row i through its checks of steps 1 to 4
\* when presented from the device the row is bound to
RotateAccepts(i) ==
    /\ ~JwtExpired(tokens, i, now)
    /\ ~RecordExpired(tokens[i], now)
    /\ ~VersionOutdated(tokens[i], userVersion[tokens[i].userId])
    /\ ~ReuseSuspected(tokens[i])

\* the family has a row issued under a version below its owner's current
\* one: it was begun before the last bump
BegunBeforeBump(fam) ==
    \E i \in FamilyRows(tokens, fam) :
        tokens[i].tokenVersion < userVersion[tokens[i].userId]

\* C33: once every incrementUserTokenVersion call for a user has completed,
\* a family of that user begun before the bump holds no row that a rotation
\* accepts.
C33_NoSessionSurvivesBump ==
    \A j \in TokenIds :
        (BumpsCompleted(tokens[j].userId) /\ BegunBeforeBump(tokens[j].familyId))
            => ~RotateAccepts(j)

\* ------------------------------------------ the token handed back (C34)

\* the rotateRefreshToken call of p has returned a pair
RotateReturned(p) ==
    proc[p].pc = "done" /\ proc[p].op = "rotate" /\ proc[p].result = "ok"

\* the row is the head of its chain: not revoked, no replacement
IsHead(rec) == ~rec.isRevoked /\ rec.replacedByToken = NULL

\* C34: the refresh token a rotateRefreshToken call returns, after a rotation
\* or from the grace period, is a row that is not revoked and has no
\* replacement when the call returns.
C34_ReturnedTokenIsHead ==
    \A p \in Procs : RotateReturned(p) => IsHead(tokens[proc[p].refreshToken])

\* ------------------------------------------------ storage failures (C35)

\* A storage call of a rotateRefreshToken call in flight rejects (the
\* replacement lookup, an update, user.findUnique, the create): nothing is
\* written by that call, rotateRefreshToken has no catch around it and the
\* call rejects with the storage error.  What the call wrote before stays.
RotateStorageFails(p) ==
    /\ Delivered
    /\ proc[p].op = "rotate"
    /\ proc[p].pc \in {"graceLookup", "revokeSelf", "revokeFamily", "genFindUser",
                       "genCreate", "markRotated"}
    /\ proc' = [proc EXCEPT ![p] = Finish(p, "StorageError", NULL, "none")]
    /\ UNCHANGED <<tokens, userVersion, alerts, now, calls>>
    /\ UNCHANGED <<secVars, req>>

\* the token endpoints served one request at a time over a storage that can fail
NextFail ==
    \/ \E p \in AuthProcs, u \in Users, fp \in Fingerprints : GenerateTokenPair(p, u, fp)
    \/ \E p \in AuthProcs : GenCreate(p)
    \/ \E p \in AuthProcs, tok \in TokenIds, fp \in Fingerprints : RefreshAccessToken(p, tok, fp)
    \/ \E p \in AuthProcs : RotateGraceLookup(p)
    \/ \E p \in AuthProcs : RotateRevokeFamily(p)
    \/ \E p \in AuthProcs : AlertWritten(p)
    \/ \E p \in AuthProcs : AlertLost(p)
    \/ \E p \in AuthProcs : RotateGenFindUser(p)
    \/ \E p \in AuthProcs : RotateMarkRotated(p)
    \/ \E p \in AuthProcs : RotateStorageFails(p)
    \/ \E p \in AuthProcs : Done(p)
    \/ \E t \in Times : Tick(t)

SpecFail == Init /\ [][NextFail]_vars

\* the rotateRefreshToken call of p has failed with a storage error
RotateFailedInStorage(p) ==
    proc[p].pc = "done" /\ proc[p].op = "rotate" /\ proc[p].result = "StorageError"

\* the rows of refresh_tokens that no row names as its replacement and that
\* did not begin their family
Unreferenced(toks) ==
    {j \in 1..Len(toks) :
        /\ toks[j].familyId # j
        /\ \A i \in 1..Len(toks) : toks[i].replacedByToken # j}

\* C35: a rotateRefreshToken call that has failed with a storage error has
\* created no row, and refresh_tokens holds no successor row that no row
\* names as its replacement.
C35_FailedRotationLeavesNoRow ==
    /\ \A p \in Procs : RotateFailedInStorage(p) => proc[p].newToken = NULL
    /\ (\A p \in Procs : proc[p].pc \in {"idle", "done"}) => Unreferenced(tokens) = {}

\* ------------------------------------------ deny-listed credentials (C36)

\* no timer of blacklistAccessToken has run yet: every token that was put on
\* the deny-list is still on it
NoEntryDeleted == now' < DenyListTtlSec

InitLegacy ==
    /\ tokens = << NewRecord("u1", 1, 1, NONE, RefreshExpirySec) >>
    /\ userVersion = [u \in Users |-> 1]
    /\ alerts = EmptyBag
    /\ now = 0
    /\ calls = 0
    /\ proc = [p \in Procs |-> Idle]
    /\ trusted = <<>>
    /\ history = EmptyBag
    /\ obs = [p \in Procs |-> NoObserve]
    /\ blacklist = {}
    /\ signed = {}
    /\ req = [p \in Procs |-> NoRequest]
    /\ InitApp

\* logins and refreshes from there, all within the first second: neither
\* the owner nor the fingerprint of a row depends on the time
NextLegacy ==
    \/ \E p \in Procs, u \in Users, fp \in Fingerprints : GenerateTokenPair(p, u, fp)
    \/ \E p \in Procs : GenCreate(p)
    \/ \E p \in Procs, tok \in TokenIds, fp \in Fingerprints : RefreshAccessToken(p, tok, fp)
    \/ \E p \in Procs : RotateGraceLookup(p)
    \/ \E p \in Procs : RotateRevokeFamily(p)
    \/ \E p \in Procs : AlertWritten(p)
    \/ \E p \in Procs : AlertLost(p)
    \/ \E p \in Procs : RotateGenFindUser(p)
    \/ \E p \in Procs : RotateMarkRotated(p)
    \/ \E p \in Procs : Done(p)

SpecLegacy == InitLegacy /\ [][NextLegacy]_vars

\* the row that began the family of row i: a family is named after it
RootOf(i) == tokens[tokens[i].familyId]

MaxOtpCalls == 7        \* createAndSendOtp and verifyOtp calls followed
MaxOtps == 2            \* rows of otp_codes followed

OtpCooldownSec == 60
OtpExpirySec == 5 * 60
OtpMaxAttempts == 5

\* generateOtpCode: six digits; what a client can submit: the code, another
\* code, the code short of its last digit, a longer string
GeneratedCodes == {"123450"}
SubmittedCodes == {"123450", "654321", "12345", "1234567"}
\* the instants at which the calls are followed
OtpTimes == {0, OtpCooldownSec, OtpExpirySec + 1}

\* code.padEnd(6, '0') and the length of its buffer
PadEnd(code) == IF code = "12345" THEN "123450" ELSE code
ByteLength(code) == IF code = "1234567" THEN 7 ELSE 6

\* crypto.timingSafeEqual(Buffer.from(code.padEnd(6, '0')),
\*                        Buffer.from(otpRecord.code.padEnd(6, '0')))
\* throws a RangeError when the buffers differ in length
CompareCode(code, stored) ==
    IF ByteLength(PadEnd(code)) # ByteLength(PadEnd(stored)) THEN "RangeError"
    ELSE IF PadEnd(code) = PadEnd(stored) THEN "equal"
    ELSE "different"

\* findFirst({ isUsed: false }, orderBy createdAt desc): the id, NULL for none
LatestUnusedOtp(rows) ==
    LET live == {i \in 1..Len(rows) : ~rows[i].isUsed}
    IN IF live = {} THEN NULL ELSE CHOOSE i \in live : \A j \in live : j <= i

\* canRequestOtp: no unused row created within the last 60 seconds
CanRequestOtp(rows, t) ==
    ~\E i \in 1..Len(rows) : ~rows[i].isUsed /\ rows[i].createdAt >= t - OtpCooldownSec

OtpAt(p, label) == vcall[p].pc = label

\* a request is picked up by a free process; requests are interchangeable
OtpCanStart(p) ==
    /\ calls < MaxOtpCalls
    /\ OtpAt(p, "idle")
    /\ p = "p2" => vcall["p1"].pc # "idle"

OtpReturn(p, res) == [vcall[p] EXCEPT !.pc = "done", !.result = res]

OtpFrame == UNCHANGED <<tokens, userVersion, alerts, proc, trusted, history, obs,
                        blacklist, signed, req, entries, ccall>>

\* createAndSendOtp step 1: canRequestOtp
CreateAndSendOtp(p, code) ==
    /\ OtpCanStart(p)
    /\ Len(otps) + Cardinality({q \in Procs : vcall[q].op = "create"}) < MaxOtps
    /\ vcall' = [vcall EXCEPT ![p] =
            IF CanRequestOtp(otps, now)
            THEN [NoOtpCall EXCEPT !.pc = "invalidate", !.op = "create", !.code = code]
            ELSE [NoOtpCall EXCEPT !.pc = "done", !.op = "create", !.result = "cooldown"]]
    /\ calls' = calls + 1
    /\ UNCHANGED <<otps, accepted, now>>
    /\ OtpFrame

\* step 2: updateMany({ isUsed: false }, { isUsed: true })
OtpInvalidate(p) ==
    /\ OtpAt(p, "invalidate")
    /\ otps' = [i \in 1..Len(otps) |-> [otps[i] EXCEPT !.isUsed = TRUE]]
    /\ vcall' = [vcall EXCEPT ![p].pc = "create"]
    /\ UNCHANGED <<accepted, now, calls>>
    /\ OtpFrame

\* step 3 and 4: otpCode.create, then the code is sent; whether or not the
\* message goes out, the row stays
OtpCreate(p, sent) ==
    /\ OtpAt(p, "create")
    /\ otps' = Append(otps, [code |-> vcall[p].code, attempts |-> 0, isUsed |-> FALSE,
                             createdAt |-> now, expiresAt |-> now + OtpExpirySec])
    /\ vcall' = [vcall EXCEPT ![p] = OtpReturn(p, IF sent THEN "sent" ELSE "sendFailed")]
    /\ UNCHANGED <<accepted, now, calls>>
    /\ OtpFrame

\* verifyOtp step 1: findFirst, then the checks of steps 2 and 3 on what was read
VerifyOtp(p, code) ==
    /\ OtpCanStart(p)
    /\ LET id == LatestUnusedOtp(otps)
           call == [NoOtpCall EXCEPT !.op = "verify", !.code = code]
       IN vcall' = [vcall EXCEPT ![p] =
            IF id = NULL THEN [call EXCEPT !.pc = "done", !.result = "notFound"]
            ELSE LET read == [call EXCEPT !.id = id, !.storedCode = otps[id].code,
                                          !.attempts = otps[id].attempts]
                 IN IF now > otps[id].expiresAt THEN [read EXCEPT !.pc = "expire"]
                    ELSE IF otps[id].attempts >= OtpMaxAttempts
                         THEN [read EXCEPT !.pc = "exhaust"]
                    ELSE [read EXCEPT !.pc = "increment"]]
    /\ calls' = calls + 1
    /\ UNCHANGED <<otps, accepted, now>>
    /\ OtpFrame

\* step 2: the expired row is marked used
VerifyExpire(p) ==
    /\ OtpAt(p, "expire")
    /\ otps' = [otps EXCEPT ![vcall[p].id].isUsed = TRUE]
    /\ vcall' = [vcall EXCEPT ![p] = OtpReturn(p, "expired")]
    /\ UNCHANGED <<accepted, now, calls>>
    /\ OtpFrame

\* step 3: the exhausted row is marked used
VerifyExhaust(p) ==
    /\ OtpAt(p, "exhaust")
    /\ otps' = [otps EXCEPT ![vcall[p].id].isUsed = TRUE]
    /\ vcall' = [vcall EXCEPT ![p] = OtpReturn(p, "tooManyAttempts")]
    /\ UNCHANGED <<accepted, now, calls>>
    /\ OtpFrame

\* steps 4 and 5: update({ attempts: { increment: 1 } }), then the submitted
\* code is compared with the code read in step 1
VerifyIncrement(p) ==
    /\ OtpAt(p, "increment")
    /\ otps' = [otps EXCEPT ![vcall[p].id].attempts = @ + 1]
    /\ LET cmp == CompareCode(vcall[p].code, vcall[p].storedCode)
       IN vcall' = [vcall EXCEPT ![p] =
            IF cmp = "equal" THEN [vcall[p] EXCEPT !.pc = "markUsed"]
            ELSE IF cmp = "different" THEN OtpReturn(p, "invalid")
            ELSE OtpReturn(p, "RangeError")]
    /\ UNCHANGED <<accepted, now, calls>>
    /\ OtpFrame

\* step 6: the row is marked used, the call answers valid: true
VerifyMarkUsed(p) ==
    /\ OtpAt(p, "markUsed")
    /\ otps' = [otps EXCEPT ![vcall[p].id].isUsed = TRUE]
    /\ vcall' = [vcall EXCEPT ![p] = OtpReturn(p, "valid")]
    /\ accepted' = Append(accepted, vcall[p].id)
    /\ UNCHANGED <<now, calls>>
    /\ OtpFrame

\* the answer is sent
OtpDone(p) ==
    /\ OtpAt(p, "done")
    /\ vcall' = [vcall EXCEPT ![p] = NoOtpCall]
    /\ UNCHANGED <<otps, accepted, now, calls>>
    /\ OtpFrame

OtpTick(t) ==
    /\ t > now
    /\ now' = t
    /\ UNCHANGED <<otps, vcall, accepted, calls>>
    /\ OtpFrame

NextOtp ==
    \/ \E p \in Procs, code \in GeneratedCodes : CreateAndSendOtp(p, code)
    \/ \E p \in Procs : OtpInvalidate(p)
    \/ \E p \in Procs, sent \in BOOLEAN : OtpCreate(p, sent)
    \/ \E p \in Procs, code \in SubmittedCodes : VerifyOtp(p, code)
    \/ \E p \in Procs : VerifyExpire(p)
    \/ \E p \in Procs : VerifyExhaust(p)
    \/ \E p \in Procs : VerifyIncrement(p)
    \/ \E p \in Procs : VerifyMarkUsed(p)
    \/ \E p \in Procs : OtpDone(p)
    \/ \E t \in OtpTimes : OtpTick(t)

SpecOtp == Init /\ [][NextOtp]_vars

\* ------------------------------------------------- single use (C38)

\* C38: verifyOtp answers valid: true at most once for a row of otp_codes.
C38_CodeAcceptedOnce ==
    \A i, j \in 1..Len(accepted) : accepted[i] = accepted[j] => i = j

\* ------------------------------------------------- attempt limit (C39)

\* C39: a row of otp_codes is compared with a submitted code at most five
\* times: the counter that is incremented before each comparison never
\* exceeds the limit, and no call answers valid: true for a row whose
\* counter has passed it.
C39_AtMostFiveComparisons ==
    /\ \A i \in 1..Len(otps) : otps[i].attempts <= OtpMaxAttempts
    /\ \A p \in Procs :
        vcall[p].pc = "markUsed" => otps[vcall[p].id].attempts <= OtpMaxAttempts


\* ------------------------------------------------------ clock entries
\* unnamed/part_005: clockIn and clockOut run inside prisma.$transaction at
\* the default isolation level (read committed), forceClockOut runs outside
\* one.  entries holds the committed rows of clock_entries, a row's position
\* is its id; a row a transaction has created is in its call until commit.

MaxShifts == 4          \* clockIn, clockOut and forceClockOut calls followed

ClockTimes == 0..2

\* where: { userId, clockOutTime: null, isActive: true }
ActiveEntries(rows, u) ==
    {i \in 1..Len(rows) :
        rows[i].userId = u /\ rows[i].clockOutTime = NULL /\ rows[i].isActive}

ClockAt(p, label) == ccall[p].pc = label

ClockCanStart(p) ==
    /\ calls < MaxShifts
    /\ ClockAt(p, "idle")
    /\ p = "p2" => ccall["p1"].pc # "idle"

ClockReturn(p, res) == [ccall[p] EXCEPT !.pc = "done", !.result = res]

ClockFrame == UNCHANGED <<tokens, userVersion, alerts, proc, trusted, history, obs,
                          blacklist, signed, req, otps, vcall, accepted>>

\* clockIn: the transaction begins, findFirst looks for an active entry of
\* the user among the committed rows
ClockIn(p, u, assigned) ==
    /\ ClockCanStart(p)
    /\ ccall' = [ccall EXCEPT ![p] =
            IF ActiveEntries(entries, u) # {}
            THEN [NoClockCall EXCEPT !.pc = "done", !.op = "clockIn", !.userId = u,
                                     !.result = "AlreadyClockedIn"]
            ELSE [NoClockCall EXCEPT !.pc = "findAssignment", !.op = "clockIn",
                                     !.userId = u, !.assigned = assigned]]
    /\ calls' = calls + 1
    /\ UNCHANGED <<entries, now>>
    /\ ClockFrame

\* clockIn: taskAssignment.findFirst
ClockInFindAssignment(p) ==
    /\ ClockAt(p, "findAssignment")
    /\ ccall' = [ccall EXCEPT ![p] =
            IF ccall[p].assigned THEN [ccall[p] EXCEPT !.pc = "create"]
            ELSE ClockReturn(p, "NotAssigned")]
    /\ UNCHANGED <<entries, now, calls>>
    /\ ClockFrame

\* clockIn: clockEntry.create inside the transaction; the row carries
\* clockInTime: new Date() and is not yet visible to other transactions
ClockInCreate(p) ==
    /\ ClockAt(p, "create")
    /\ ccall' = [ccall EXCEPT ![p].pc = "commit", ![p].clockInTime = now]
    /\ UNCHANGED <<entries, now, calls>>
    /\ ClockFrame

\* clockIn: the callback returns, the transaction commits
ClockInCommit(p) ==
    /\ ClockAt(p, "commit")
    /\ entries' = Append(entries, [userId |-> ccall[p].userId, clockInTime |-> ccall[p].clockInTime,
                                   clockOutTime |-> NULL, isActive |-> TRUE])
    /\ ccall' = [ccall EXCEPT ![p] = ClockReturn(p, "ok")]
    /\ UNCHANGED <<now, calls>>
    /\ ClockFrame

\* clockOut: the transaction begins, findFirst picks an active entry of the
\* user (no orderBy: any of them)
ClockOut(p, u) ==
    /\ ClockCanStart(p)
    /\ \/ /\ ActiveEntries(entries, u) = {}
          /\ ccall' = [ccall EXCEPT ![p] =
                [NoClockCall EXCEPT !.pc = "done", !.op = "clockOut", !.userId = u,
                                    !.result = "NoActiveEntry"]]
       \/ \E i \in ActiveEntries(entries, u) :
            ccall' = [ccall EXCEPT ![p] =
                [NoClockCall EXCEPT !.pc = "update", !.op = "clockOut", !.userId = u,
                                    !.id = i]]
    /\ calls' = calls + 1
    /\ UNCHANGED <<entries, now>>
    /\ ClockFrame

\* forceClockOut: the same findFirst, outside a transaction
ForceClockOut(p, u) ==
    /\ ClockCanStart(p)
    /\ \/ /\ ActiveEntries(entries, u) = {}
          /\ ccall' = [ccall EXCEPT ![p] =
                [NoClockCall EXCEPT !.pc = "done", !.op = "forceClockOut", !.userId = u,
                                    !.result = "NoActiveEntry"]]
       \/ \E i \in ActiveEntries(entries, u) :
            ccall' = [ccall EXCEPT ![p] =
                [NoClockCall EXCEPT !.pc = "update", !.op = "forceClockOut", !.userId = u,
                                    !.id = i]]
    /\ calls' = calls + 1
    /\ UNCHANGED <<entries, now>>
    /\ ClockFrame

\* clockOut and forceClockOut: clockEntry.update by id sets
\* clockOutTime: new Date(); the update of clockOut becomes visible with the
\* commit that follows it, that of forceClockOut at once
ClockOutUpdate(p) ==
    /\ ClockAt(p, "update")
    /\ entries' = [entries EXCEPT ![ccall[p].id].clockOutTime = now]
    /\ ccall' = [ccall EXCEPT ![p] = ClockReturn(p, "ok")]
    /\ UNCHANGED <<now, calls>>
    /\ ClockFrame

\* the answer is sent
ClockDone(p) ==
    /\ ClockAt(p, "done")
    /\ ccall' = [ccall EXCEPT ![p] = NoClockCall]
    /\ UNCHANGED <<entries, now, calls>>
    /\ ClockFrame

ClockTick(t) ==
    /\ t > now
    /\ now' = t
    /\ UNCHANGED <<entries, ccall, calls>>
    /\ ClockFrame

NextClock ==
    \/ \E p \in Procs, u \in Users, assigned \in BOOLEAN : ClockIn(p, u, assigned)
    \/ \E p \in Procs : ClockInFindAssignment(p)
    \/ \E p \in Procs : ClockInCreate(p)
    \/ \E p \in Procs : ClockInCommit(p)
    \/ \E p \in Procs, u \in Users : ClockOut(p, u)
    \/ \E p \in Procs, u \in Users : ForceClockOut(p, u)
    \/ \E p \in Procs : ClockOutUpdate(p)
    \/ \E p \in Procs : ClockDone(p)
    \/ \E t \in ClockTimes : ClockTick(t)

SpecClock == Init /\ [][NextClock]_vars

\* ------------------------------------------------- one active entry (C40)

\* C40: a user has at most one active clock entry at any time, and a clockIn
\* of a user who has an active entry fails with 'Already clocked in'.
C40_OneActiveEntryPerUser ==
    /\ \A u \in Users : Cardinality(ActiveEntries(entries, u)) <= 1
    /\ \A p \in Procs :
        (ccall[p].op = "clockIn" /\ ccall[p].pc = "commit")
            => ActiveEntries(entries, ccall[p].userId) = {}

====
